---- MODULE Spec2Model ----
(***************************************************************************)
(* Task-scoped transaction management of pynocular                         *)
(* (pynocular/aiopg_transaction.py): LockedConnection,                     *)
(* TaskContextConnection, transaction and ConditionalTransaction, run by   *)
(* cooperatively scheduled asyncio tasks.  One step of the model is the    *)
(* code a task runs between two suspension points (await).                 *)
(* In-memory backend (pynocular/backends/memory.py): MemoryConnection,     *)
(* MemoryTransaction and the operations of MemoryDatabaseModelBackend on   *)
(* one table.                                                              *)
(* Ambient backend (pynocular/backends/context.py), the filter evaluator   *)
(* (pynocular/evaluate_column_element.py) and the engine and pool caches   *)
(* (pynocular/engines.py).                                                 *)
(***************************************************************************)
EXTENDS Integers, Sequences, FiniteSets, TLC

\* ---------------------------------------------------------------- bounds
MaxDepth == 2       \* deepest nesting of scopes inside one task
MaxConns == 3       \* connections the engine hands out in one run
MaxExec == 2        \* execute calls the first task issues
MaxEnter == 2       \* scopes the first task enters
MaxFaults == 1      \* calls of begin, execute, commit or rollback that fail on an open connection
MaxRows == 3        \* rows of the table the in-memory backend is constructed with
MaxOps == 2         \* operations on the in-memory table in a run with MemoryTransaction blocks
MaxTrx == 2         \* MemoryTransaction blocks the first task enters
MaxBlocks == 2      \* deepest nesting of set_backend blocks inside one task
MaxKids == 3        \* most children of an AND or OR the evaluator is given
MaxEngines == 3     \* engines and pools created in one run
MaxCalls == 2       \* operations called on the SQL backend in one run

\* ----------------------------------------------------------- the actors
Tasks == {"t1", "t2"}        \* unrelated tasks, each started from the base context
Siblings == {"s1", "s2"}     \* tasks started by asyncio.gather inside a scope
Parent == "t1"               \* the task that runs the gather
AllTasks == Tasks \cup Siblings
Key == "engine"              \* str(engine): the key of the one engine in use
DefaultDict == "default"     \* the dict object created by `default={}`
None == "None"              \* Python None where a task or a word is expected
NoConn == 0                  \* Python None where a connection is expected
ConnIds == 1..MaxConns
Writes == AllTasks \X (1..MaxExec)
\* what each task may do in a run of nested and serial scopes ...
ExecBudget(t) == IF t = Parent THEN MaxExec ELSE IF t \in Tasks THEN 1 ELSE 0
EnterBudget(t) == IF t = Parent THEN MaxEnter ELSE IF t \in Tasks THEN 1 ELSE 0
\* ... in a run where the first task is cancelled: it enters one scope and gathers
\* its siblings in it, the other task stays out
CancelBudget(t) == [exec |-> IF t = "t2" THEN 0 ELSE 1, enter |-> IF t = "t2" THEN 0 ELSE 1]
\* ... and in a run where the parent gathers its siblings inside one scope: the
\* siblings execute, the two tasks only enter and leave a scope
GatherBudget(t) == [exec |-> IF t \in Siblings THEN 1 ELSE 0, enter |-> 1]

VARIABLES
    connections,   \* per dict object: its content, a map from key to connection
    ctxVar,        \* per task context: the dict object the ContextVar is set to, or "MISSING"
    pc,            \* per task: the suspension point it is at
    frames,        \* per task: stack of the scope objects whose block it is inside
    conn,          \* per connection id: the physical connection and its lock
    nextConn,      \* next connection id engine.acquire() hands out
    db,            \* rows observable by a fresh connection (committed writes)
    budget,        \* per task: execute calls and scope entries still to issue
    faults,        \* failures the database may still answer with
    chain,         \* history: per task, writes and kinds of the current chain of scopes
    lastExit       \* history: per task, the scope object that most recently exited

VARIABLES
    records,           \* MemoryConnection.records[table]: the rows of the one table, in order
    tmpRecords,        \* MemoryConnection._tmp_records: <<>> for None, else <<the copied rows>>
    transactionStack,  \* MemoryConnection._transaction_stack: MemoryTransaction objects
    pkGenerator,       \* the value next(self._pk_generator) returns next
    mtask,             \* per task: the MemoryTransaction blocks it is inside, the exception it raises
    mbudget,           \* operations on the table and transactions per task still to issue
    last,              \* history: the most recent operation, its arguments and what it returned
    nest               \* history: the rows when the root transaction started, whether a
                       \*   transaction rolled back and a nested one committed since

VARIABLES
    backend,           \* per task context: the value of the ContextVar `_backend`, or "MISSING"
    using,             \* per task: the set_backend blocks it is inside, innermost last
    bk                 \* per task: whether an exception is propagating; history: its last
                       \*   step at the backend context

VARIABLES
    element,           \* the ColumnElement evaluate_column_element is called with
    model,             \* the record (dict) it is called with
    result             \* <<>> before the call, <<value>> when it has returned or raised

VARIABLES
    cached,            \* _engines and _pools: per kind, the entry of the one cache key, 0 for none
    engineObj,         \* per engine or pool object: "unmade", "open" or "closed"
    nextEngine,        \* the next object create_engine / create_pool returns
    call               \* per task: where its call of get_aiopg_engine / get_asyncpgsa_pool
                       \*   is, its arguments; history: what it found and returned

VARIABLES
    sqlLog             \* history: the calls made on the SQLDatabaseModelBackend, in order:
                       \*   the operation, what the driver answered, how the call ended

aiopgVars == <<connections, ctxVar, pc, frames, conn, nextConn, db, budget, faults, chain, lastExit>>

memVars == <<records, tmpRecords, transactionStack, pkGenerator, mtask, mbudget, last, nest>>

contextVars == <<backend, using, bk>>

evalVars == <<element, model, result>>

engineVars == <<cached, engineObj, nextEngine, call>>

sqlVars == <<sqlLog>>

libVars == <<contextVars, evalVars, engineVars, sqlVars>>

vars == <<aiopgVars, memVars, libVars>>

\* ------------------------------------------------------------ records
\* a scope object (transaction / ConditionalTransaction instance)
NewScope(kind, assoc) ==
    [kind  |-> kind,     \* "trx" = transaction, "cond" = ConditionalTransaction
     top   |-> FALSE,    \* self._top
     trx   |-> NoConn,   \* self._trx: connection the begun Transaction belongs to
     raw   |-> NoConn,   \* ConditionalTransaction._conn
     ret   |-> NoConn,   \* what __aenter__ returned
     token |-> None,     \* task_connection._token: the value set() replaced
     lk    |-> NoConn,   \* local `conn` of __aexit__
     exc   |-> FALSE,    \* exc_type passed to __aexit__
     err   |-> FALSE,    \* commit/rollback raised inside __aexit__
     assoc |-> assoc,    \* history: what get() returned on entry
     seen  |-> NoConn,   \* history: what get() returns right after set()
     after |-> NoConn,   \* history: what get() returns right after clear()
     ops   |-> <<>>,     \* history: calls this scope issued, in order
     depth |-> 0,        \* history: nesting depth of the scope inside its task
     out   |-> None,     \* history: how it ended: "ok", "err", or in __aenter__
                         \*   with "acquire_err" or "enter_err" (begin raised)
     w     |-> {},       \* history: writes executed in the chain up to the exit
     pure  |-> TRUE,     \* history: every scope of the chain was a transaction
     cancelled |-> FALSE] \* history: the task was cancelled inside the scope

NoScope == NewScope(None, NoConn)

\* a physical connection: st, its transaction trx and the rows pending in it;
\* lock is the asyncio.Lock of the LockedConnection wrapped around it (wrapped);
\* inflight: tasks whose execute it is running; calls: tasks whose begin, commit or
\* rollback it is running; bad: those of them that were made while the connection
\* was running another call; owner: the task that acquired it
FreshConn == [st |-> "unalloc", lock |-> None, inflight |-> {}, calls |-> {}, bad |-> {},
              trx |-> "none", pending |-> {}, wrapped |-> FALSE, owner |-> None]

\* a call made on a connection that is running another call is an error
\* ("using just aiopg, this is an error")
Busy(cr) == cr.inflight \cup cr.calls # {}
Call(cr, t) == [cr EXCEPT !.calls = @ \cup {t}, !.bad = IF Busy(cr) THEN @ \cup {t} ELSE @]
Return(cr, t) == [cr EXCEPT !.calls = @ \ {t}, !.inflight = @ \ {t}, !.bad = @ \ {t}]

\* a call can succeed only on a connection that is open and was idle when it was made
Usable(c, t) ==
    /\ conn[c].st = "open"
    /\ t \notin conn[c].bad

Top(t) == frames[t][Len(frames[t])]
SetTop(t, f) == [frames EXCEPT ![t] = [@ EXCEPT ![Len(@)] = f]]
Pop(t) == [frames EXCEPT ![t] = SubSeq(@, 1, Len(@) - 1)]
Did(f, op) == [f EXCEPT !.ops = Append(@, op)]
Has(f, op) == \E i \in 1..Len(f.ops) : f.ops[i] = op
Count(f, op) == Cardinality({i \in 1..Len(f.ops) : f.ops[i] = op})

\* ------------------------------------------------ TaskContextConnection
\* transaction_connections_var.get(): the dict object set in the task's context,
\* or the default object when the variable is not set there
GetConnections(t) == IF ctxVar[t] = "MISSING" THEN DefaultDict ELSE ctxVar[t]

\* get(): self._get_connections().get(self.connection_key)
TCCGet(t) == connections[GetConnections(t)][Key]

\* ------------------------------------------------ in-memory backend: data
\* The one table has an Integer primary key "id" and two plain columns "x" and "y";
\* its config has no db managed fields.
Cols == {"id", "x", "y"}
PrimaryKeys == <<"id">>      \* config.primary_keys
Null == 0                    \* Python None as the value of a column
Absent == -1                 \* the key is not in the dict
Vals == {1, 2}               \* values of the plain columns
NoLimit == -1                \* limit=None

\* faulty variant of the column lookup: model[name], -1 standing for the KeyError
Get_Subscript(record, name) == record[name]

\* record.get(name)
Get(record, name) == IF record[name] = Absent THEN Null ELSE record[name]

\* a MemoryTransaction object: the task that created it and a serial number
Trx(t, n) == <<t, n>>

\* what `last` holds before any operation
NoOp == [op |-> None, where |-> <<>>, order |-> <<>>, limit |-> NoLimit, recs |-> <<>>,
         values |-> <<>>, before |-> <<>>, res |-> <<>>, n |-> 0, root |-> FALSE,
         held |-> {}, list |-> FALSE, outside |-> FALSE]

\* what a task holds before it entered any MemoryTransaction
NoMTask == [own |-> <<>>, exc |-> None, exitIn |-> None, exitOut |-> None]

\* the backend constructed with the rows `rows` and budget b
MemInit(rows, b) ==
    /\ records = rows
    /\ tmpRecords = <<>>
    /\ transactionStack = <<>>
    /\ pkGenerator = 1
    /\ mtask = [t \in Tasks |-> NoMTask]
    /\ mbudget = b
    /\ last = NoOp
    /\ nest = [rootAt |-> <<>>, rolled |-> FALSE, committed |-> FALSE]

\* what `bk` holds of a task before its first step at the backend context
NoStep == [op |-> None, res |-> None, prev |-> None, left |-> None]

\* no task has set a backend
ContextInit ==
    /\ backend = [t \in Tasks |-> "MISSING"]
    /\ using = [t \in Tasks |-> <<>>]
    /\ bk = [t \in Tasks |-> [exc |-> FALSE, last |-> NoStep]]

\* --- Python values the evaluator meets besides the small integers, None and lists
PyTrue == 11                 \* True
PyFalse == 10                \* False
Raised == -2                 \* no value: the call raised

\* --- the nodes of a filter expression
Node(kind, name, value, operator, args) ==
    [kind |-> kind, name |-> name, value |-> value, operator |-> operator, args |-> args]
Column(name) == Node("Column", name, Null, None, <<>>)
BindParameter(value) == Node("BindParameter", None, value, None, <<>>)
NullNode == Node("Null", None, Null, None, <<>>)
True_ == Node("True_", None, Null, None, <<>>)
False_ == Node("False_", None, Null, None, <<>>)
Grouping(clauses) == Node("Grouping", None, Null, None, clauses)
BinaryExpression(left, operator, right) == Node("BinaryExpression", None, Null, operator, <<left, right>>)
BooleanClauseList(operator, children) == Node("BooleanClauseList", None, Null, operator, children)
AsBoolean(elem, operator) == Node("AsBoolean", None, Null, operator, <<elem>>)

\* no evaluation is under way
EvalInit ==
    /\ element = NullNode
    /\ model = [x |-> Null, flag |-> Null]
    /\ result = <<>>

\* --- engines.py: the two caches, each looked at under one (event loop, connection
\* string) key
EngineKinds == {"aiopg", "asyncpgsa"}
NoEngine == 0
EngineIds == 1..MaxEngines

\* what `call` holds of a task that has not called yet
NoCall == [pc |-> "idle", kind |-> None, force |-> FALSE, if_exists |-> FALSE,
           seen |-> NoEngine, seenClosed |-> FALSE, made |-> NoEngine, ret |-> NoEngine,
           retOpen |-> FALSE, stored |-> FALSE]

\* both caches are empty
EngineInit ==
    /\ cached = [k \in EngineKinds |-> NoEngine]
    /\ engineObj = [e \in EngineIds |-> "unmade"]
    /\ nextEngine = 1
    /\ call = [t \in Tasks |-> NoCall]

\* no operation has been called on the SQL backend
SqlInit == sqlLog = <<>>

LibInit == ContextInit /\ EvalInit /\ EngineInit /\ SqlInit

NoMemBudget == [ops |-> 0, trx |-> [t \in Tasks |-> 0]]

AiopgInit(b) ==
    /\ connections = [d \in {DefaultDict} |-> [k \in {Key} |-> NoConn]]
    /\ ctxVar = [t \in AllTasks |-> "MISSING"]
    /\ pc = [t \in AllTasks |-> IF t \in Tasks THEN "idle" ELSE "unstarted"]
    /\ frames = [t \in AllTasks |-> <<>>]
    /\ conn = [c \in ConnIds |-> FreshConn]
    /\ nextConn = 1
    /\ db = {}
    /\ budget = b
    /\ faults = MaxFaults
    /\ chain = [t \in AllTasks |-> [w |-> {}, pure |-> TRUE]]
    /\ lastExit = [t \in AllTasks |-> NoScope]

InitWith(b) ==
    /\ AiopgInit(b)
    /\ MemInit(<<>>, NoMemBudget)
    /\ LibInit

Init == InitWith([t \in AllTasks |-> [exec |-> ExecBudget(t), enter |-> EnterBudget(t)]])

InitGather == InitWith([t \in AllTasks |-> GatherBudget(t)])

InitCancel == InitWith([t \in AllTasks |-> CancelBudget(t)])

\* set(conn): connections[self.connection_key] = conn on the dict get() returned,
\* then transaction_connections_var.set(connections); the token keeps the old value
TCCSet(t, c) ==
    /\ connections' = [connections EXCEPT ![GetConnections(t)][Key] = c]
    /\ ctxVar' = [ctxVar EXCEPT ![t] = GetConnections(t)]

\* clear(): transaction_connections_var.reset(self._token) puts the variable of the
\* task's context back to the value the token recorded; the dict is not touched
TCCClear(t, f) ==
    /\ ctxVar' = [ctxVar EXCEPT ![t] = f.token]
    /\ UNCHANGED connections

\* ----------------------------------------------------- physical connection
\* SAConnection.close(): an active transaction is rolled back by the server
Closed(cr) ==
    [cr EXCEPT !.st = "closed",
               !.trx = IF @ = "active" THEN "rolledback" ELSE @,
               !.pending = {}]

\* the answer of a call to the database: it fails when it cannot succeed (able is
\* false), and otherwise may fail as long as the run has failures left
Answer(ok, able) ==
    /\ ok => able
    /\ faults' = IF ~ok /\ able THEN faults - 1 ELSE faults
    /\ faults' >= 0

\* where a task continues after a scope object is done with
After(t, raising, fr) ==
    IF ~raising THEN "idle"
    ELSE IF fr # <<>> THEN "raising"
    ELSE IF t \in Tasks THEN "idle" ELSE "done_err"

Leave(t, f, out) ==
    /\ frames' = Pop(t)
    /\ pc' = [pc EXCEPT ![t] = After(t, out # "ok", Pop(t)[t])]
    /\ lastExit' = [lastExit EXCEPT ![t] =
                      [f EXCEPT !.depth = Len(frames[t]), !.out = out,
                                !.w = chain[t].w, !.pure = chain[t].pure]]

Push(t, f) ==
    /\ frames' = [frames EXCEPT ![t] = Append(@, [f EXCEPT !.depth = Len(frames[t]) + 1])]
    /\ budget' = [budget EXCEPT ![t].enter = @ - 1]
    /\ UNCHANGED faults
    /\ chain' = [chain EXCEPT ![t] =
                   [w |-> IF frames[t] = <<>> THEN {} ELSE @.w,
                    pure |-> (IF frames[t] = <<>> THEN TRUE ELSE @.pure) /\ f.kind = "trx"]]

CanEnter(t) ==
    /\ pc[t] = "idle"
    /\ Len(frames[t]) < MaxDepth
    /\ budget[t].enter > 0

\* ------------------------------------------------- transaction.__aenter__
\* faulty variant: every scope takes itself for the outermost one
TransactionEnter_AlwaysTop(t) ==
    /\ CanEnter(t)
    /\ Push(t, [NewScope("trx", TCCGet(t)) EXCEPT !.top = TRUE])
    /\ pc' = [pc EXCEPT ![t] = "acquire"]
    /\ UNCHANGED <<connections, ctxVar, conn, nextConn, db, lastExit, memVars, libVars>>

\* up to `await self._engine.acquire()`, or to the return when a connection is stored
TransactionEnter(t) ==
    /\ CanEnter(t)
    /\ LET c == TCCGet(t)
           f == NewScope("trx", c) IN
         IF c = NoConn
           THEN /\ Push(t, [f EXCEPT !.top = TRUE])
                /\ pc' = [pc EXCEPT ![t] = "acquire"]
           ELSE /\ Push(t, [f EXCEPT !.ret = c])
                /\ UNCHANGED pc
    /\ UNCHANGED <<connections, ctxVar, conn, nextConn, db, lastExit, memVars, libVars>>

\* `await self._engine.acquire()` raised: __aenter__ raises with nothing stored
TransactionAcquireFailed(t) ==
    /\ pc[t] = "acquire"
    /\ Answer(FALSE, TRUE)
    /\ Leave(t, Top(t), "acquire_err")
    /\ UNCHANGED <<connections, ctxVar, conn, nextConn, db, budget, chain, memVars, libVars>>

\* acquire() returned: wrap it, set() it, call conn.begin()
TransactionAcquired(t) ==
    /\ pc[t] = "acquire"
    /\ nextConn <= MaxConns
    /\ LET c == nextConn
           f == Top(t) IN
         /\ conn' = [conn EXCEPT ![c] = Call([@ EXCEPT !.st = "open", !.wrapped = TRUE,
                                                          !.owner = t], t)]
         /\ TCCSet(t, c)
         /\ frames' = SetTop(t, Did(Did(Did([f EXCEPT !.token = ctxVar[t], !.ret = c,
                                                       !.seen = TCCGet(t)'],
                                            "acquire"), "set"), "begin"))
    /\ nextConn' = nextConn + 1
    /\ pc' = [pc EXCEPT ![t] = "begin"]
    /\ UNCHANGED <<db, budget, faults, chain, lastExit, memVars, libVars>>

\* conn.begin() returned (ok) or raised
TransactionBegun(t, ok) ==
    /\ pc[t] = "begin"
    /\ LET f == Top(t)
           c == f.ret IN
         /\ Answer(ok, Usable(c, t))
         /\ conn' = [conn EXCEPT ![c] = [Return(@, t) EXCEPT
                                                     !.trx = IF ok THEN "active" ELSE @]]
         /\ IF ok
              THEN /\ frames' = SetTop(t, [f EXCEPT !.trx = c])
                   /\ pc' = [pc EXCEPT ![t] = "idle"]
              ELSE /\ frames' = SetTop(t, Did(f, "close"))
                   /\ pc' = [pc EXCEPT ![t] = "begin_close"]
    /\ UNCHANGED <<connections, ctxVar, nextConn, db, budget, chain, lastExit, memVars, libVars>>

\* except Exception: conn.close() returned; clear(); raise
TransactionBeginFailed(t) ==
    /\ pc[t] = "begin_close"
    /\ LET f == Top(t)
           c == f.ret IN
         /\ conn' = [conn EXCEPT ![c] = Closed(@)]
         /\ TCCClear(t, f)
         /\ Leave(t, [Did(f, "clear") EXCEPT !.after = TCCGet(t)'], "enter_err")
    /\ UNCHANGED <<nextConn, db, budget, faults, chain, memVars, libVars>>

\* ------------------------------------- ConditionalTransaction.__aenter__
\* faulty variant: always super().__aenter__(), so a transaction is begun when no
\* connection is stored
ConditionalEnter_Begins(t) ==
    /\ CanEnter(t)
    /\ LET c == TCCGet(t)
           f == NewScope("cond", c) IN
         IF c = NoConn
           THEN /\ Push(t, [f EXCEPT !.top = TRUE])
                /\ pc' = [pc EXCEPT ![t] = "acquire"]
           ELSE /\ Push(t, [f EXCEPT !.ret = c])
                /\ UNCHANGED pc
    /\ UNCHANGED <<connections, ctxVar, conn, nextConn, db, lastExit, memVars, libVars>>

\* a stored connection: super().__aenter__(), which finds it again and returns it;
\* none: up to `await self._engine.acquire()`
ConditionalEnter(t) ==
    /\ CanEnter(t)
    /\ LET c == TCCGet(t)
           f == NewScope("cond", c) IN
         IF c # NoConn
           THEN /\ Push(t, [f EXCEPT !.ret = TCCGet(t)])
                /\ UNCHANGED pc
           ELSE /\ Push(t, f)
                /\ pc' = [pc EXCEPT ![t] = "cond_acquire"]
    /\ UNCHANGED <<connections, ctxVar, conn, nextConn, db, lastExit, memVars, libVars>>

\* `await self._engine.acquire()` raised: __aenter__ raises
ConditionalAcquireFailed(t) ==
    /\ pc[t] = "cond_acquire"
    /\ Answer(FALSE, TRUE)
    /\ Leave(t, Top(t), "acquire_err")
    /\ UNCHANGED <<connections, ctxVar, conn, nextConn, db, budget, chain, memVars, libVars>>

\* acquire() returned: self._conn = the bare connection, returned as it is
ConditionalAcquired(t) ==
    /\ pc[t] = "cond_acquire"
    /\ nextConn <= MaxConns
    /\ LET c == nextConn
           f == Top(t) IN
         /\ conn' = [conn EXCEPT ![c] = [@ EXCEPT !.st = "open", !.owner = t]]
         /\ frames' = SetTop(t, Did([f EXCEPT !.raw = c, !.ret = c], "acquire"))
    /\ nextConn' = nextConn + 1
    /\ pc' = [pc EXCEPT ![t] = "idle"]
    /\ UNCHANGED <<connections, ctxVar, db, budget, faults, chain, lastExit, memVars, libVars>>

\* ------------------------------------------------ LockedConnection.execute
\* faulty variant: the wrapped execute is called without taking the lock
ExecuteStart_NoLock(t) ==
    /\ pc[t] = "idle"
    /\ frames[t] # <<>>
    /\ budget[t].exec > 0
    /\ LET c == Top(t).ret IN
         conn' = [conn EXCEPT ![c] =
                    [@ EXCEPT !.inflight = @ \cup {t},
                              !.bad = IF Busy(conn[c]) THEN @ \cup {t} ELSE @]]
    /\ budget' = [budget EXCEPT ![t].exec = @ - 1]
    /\ UNCHANGED faults
    /\ pc' = [pc EXCEPT ![t] = "execute"]
    /\ UNCHANGED <<connections, ctxVar, frames, nextConn, db, chain, lastExit, memVars, libVars>>

\* the row written by the execute a task is in
SentWrite(t) == <<t, budget[t].exec + 1>>

\* `async with self.lock:` then the call of self._conn.execute; a bare connection
\* (ConditionalTransaction._conn) is called without a lock
ExecuteStart(t) ==
    /\ pc[t] = "idle"
    /\ frames[t] # <<>>
    /\ budget[t].exec > 0
    /\ LET f == Top(t)
           c == f.ret IN
         /\ f.raw = NoConn => conn[c].lock = None
         /\ conn' = [conn EXCEPT ![c] =
                       [@ EXCEPT !.lock = IF f.raw = NoConn THEN t ELSE @,
                                 !.inflight = @ \cup {t},
                                 !.bad = IF Busy(conn[c]) THEN @ \cup {t} ELSE @]]
    /\ budget' = [budget EXCEPT ![t].exec = @ - 1]
    /\ UNCHANGED faults
    /\ pc' = [pc EXCEPT ![t] = "execute"]
    /\ UNCHANGED <<connections, ctxVar, frames, nextConn, db, chain, lastExit, memVars, libVars>>

\* the wrapped execute returned or raised; leaving `async with` releases the lock.
\* Inside a transaction the row is pending, outside it is committed at once.
ExecuteDone(t, ok) ==
    /\ pc[t] = "execute"
    /\ LET f == Top(t)
           c == f.ret
           w == SentWrite(t)
           unlocked == [Return(conn[c], t) EXCEPT
                                       !.lock = IF f.raw = NoConn THEN None ELSE @] IN
         /\ Answer(ok, Usable(c, t))
         /\ IF ok /\ conn[c].trx = "active"
              THEN /\ conn' = [conn EXCEPT ![c] = [unlocked EXCEPT !.pending = @ \cup {w}]]
                   /\ UNCHANGED db
              ELSE /\ conn' = [conn EXCEPT ![c] = unlocked]
                   /\ db' = IF ok THEN db \cup {w} ELSE db
         /\ chain' = [chain EXCEPT ![t].w = IF ok THEN @ \cup {w} ELSE @]
    /\ pc' = [pc EXCEPT ![t] = IF ok THEN "idle" ELSE "raising"]
    /\ UNCHANGED <<connections, ctxVar, frames, nextConn, budget, lastExit, memVars, libVars>>

\* ------------------------------------------------------------- __aexit__
\* faulty variant: commit whether or not there was an exception
Finish_AlwaysCommit(t, f, c) ==
    /\ conn' = [x \in ConnIds |->
                  [(IF x = f.trx THEN Call(conn[x], t) ELSE conn[x]) EXCEPT
                      !.lock = IF x = c THEN t ELSE @]]
    /\ frames' = SetTop(t, Did([f EXCEPT !.lk = c], "commit"))
    /\ pc' = [pc EXCEPT ![t] = "finish"]
    /\ UNCHANGED lastExit

\* issue rollback or commit with the lock of `conn` held
Finish(t, f, c) ==
    /\ conn' = [x \in ConnIds |->
                  [(IF x = f.trx THEN Call(conn[x], t) ELSE conn[x]) EXCEPT
                      !.lock = IF x = c THEN t ELSE @]]
    /\ frames' = SetTop(t, Did([f EXCEPT !.lk = c], IF f.exc THEN "rollback" ELSE "commit"))
    /\ pc' = [pc EXCEPT ![t] = "finish"]
    /\ UNCHANGED lastExit

\* transaction.__aexit__ / ConditionalTransaction.__aexit__ up to the first await,
\* called when the block ends (pc idle) or an exception leaves it (pc raising)
ScopeExit(t) ==
    /\ pc[t] \in {"idle", "raising"}
    /\ frames[t] # <<>>
    /\ LET f == [Top(t) EXCEPT !.exc = (pc[t] = "raising")] IN
         IF f.raw # NoConn
           THEN /\ frames' = SetTop(t, Did(f, "close"))
                /\ pc' = [pc EXCEPT ![t] = "cond_close"]
                /\ UNCHANGED <<conn, lastExit>>
           ELSE IF f.top
             THEN LET c == TCCGet(t) IN
                    IF conn[c].lock = None
                      THEN Finish(t, f, c)
                      ELSE /\ frames' = SetTop(t, [f EXCEPT !.lk = c])
                           /\ pc' = [pc EXCEPT ![t] = "exit_lock"]
                           /\ UNCHANGED <<conn, lastExit>>
             ELSE /\ Leave(t, f, IF f.exc THEN "err" ELSE "ok")
                  /\ UNCHANGED conn
    /\ UNCHANGED <<connections, ctxVar, nextConn, db, budget, faults, chain, memVars, libVars>>

\* the lock `async with conn.lock:` waited for is free
ExitLocked(t) ==
    /\ pc[t] = "exit_lock"
    /\ conn[Top(t).lk].lock = None
    /\ Finish(t, Top(t), Top(t).lk)
    /\ UNCHANGED <<connections, ctxVar, nextConn, db, budget, faults, chain, memVars, libVars>>

\* self._trx.rollback() / commit() returned or raised; finally: clear(), conn.close()
ExitFinished(t, ok) ==
    /\ pc[t] = "finish"
    /\ LET f == Top(t)
           tc == f.trx IN
         /\ Answer(ok, Usable(tc, t) /\ conn[tc].trx = "active")
         /\ conn' = [conn EXCEPT ![tc] =
                       IF ok THEN [Return(@, t) EXCEPT !.pending = {},
                                     !.trx = IF Has(f, "rollback") THEN "rolledback"
                                                                   ELSE "committed"]
                             ELSE Return(@, t)]
         /\ db' = IF ok /\ Has(f, "commit") THEN db \cup conn[tc].pending ELSE db
         /\ TCCClear(t, f)
         /\ frames' = SetTop(t, Did(Did([f EXCEPT !.err = ~ok, !.after = TCCGet(t)'],
                                        "clear"), "close"))
    /\ pc' = [pc EXCEPT ![t] = "exit_close"]
    /\ UNCHANGED <<nextConn, budget, chain, lastExit, memVars, libVars>>

\* conn.close() returned; leaving `async with conn.lock:` releases the lock
ExitClosed(t) ==
    /\ pc[t] = "exit_close"
    /\ LET f == Top(t) IN
         /\ conn' = [conn EXCEPT ![f.lk] = [Closed(@) EXCEPT !.lock = None]]
         /\ Leave(t, f, IF f.exc \/ f.err THEN "err" ELSE "ok")
    /\ UNCHANGED <<connections, ctxVar, nextConn, db, budget, faults, chain, memVars, libVars>>

\* ConditionalTransaction.__aexit__: self._conn.close() returned
ConditionalClosed(t) ==
    /\ pc[t] = "cond_close"
    /\ LET f == Top(t) IN
         /\ conn' = [conn EXCEPT ![f.raw] = Closed(@)]
         /\ Leave(t, f, IF f.exc THEN "err" ELSE "ok")
    /\ UNCHANGED <<connections, ctxVar, nextConn, db, budget, faults, chain, memVars, libVars>>

\* ---------------------------------------------------------- asyncio.gather
\* the parent starts its siblings from inside a scope; each new task runs in a copy
\* of the parent's context
Gather(t) ==
    /\ t = Parent
    /\ pc[t] = "idle"
    /\ frames[t] # <<>>
    /\ \A s \in Siblings : pc[s] = "unstarted"
    /\ pc' = [x \in AllTasks |-> IF x \in Siblings THEN "idle"
                                 ELSE IF x = t THEN "gather" ELSE pc[x]]
    /\ ctxVar' = [x \in AllTasks |-> IF x \in Siblings THEN ctxVar[t] ELSE ctxVar[x]]
    /\ UNCHANGED <<connections, frames, conn, nextConn, db, budget, faults, chain, lastExit, memVars, libVars>>

\* a sibling's coroutine returns
SiblingReturn(s) ==
    /\ s \in Siblings
    /\ pc[s] = "idle"
    /\ frames[s] = <<>>
    /\ pc' = [pc EXCEPT ![s] = "done_ok"]
    /\ UNCHANGED <<connections, ctxVar, frames, conn, nextConn, db, budget, faults, chain, lastExit, memVars, libVars>>

\* gather returns when every sibling returned, and raises as soon as one raised
\* (the others keep running)
GatherDone(t) ==
    /\ pc[t] = "gather"
    /\ \/ /\ \A s \in Siblings : pc[s] = "done_ok"
          /\ pc' = [pc EXCEPT ![t] = "idle"]
       \/ /\ \E s \in Siblings : pc[s] = "done_err"
          /\ pc' = [pc EXCEPT ![t] = "raising"]
    /\ UNCHANGED <<connections, ctxVar, frames, conn, nextConn, db, budget, faults, chain, lastExit, memVars, libVars>>

\* =========================================== in-memory backend: operations
\* evaluate_column_element on the expressions a where list holds: a BinaryExpression
\* of a Column and a BindParameter (operator ==) or of a Column and Null (operator
\* is_, which `column == None` builds and the evaluator replaces by Python's `is`)
Evaluate(expr, record) ==
    IF expr.op = "is" THEN Get(record, expr.col) = Null
    ELSE Get(record, expr.col) = expr.val

\* all(evaluate_column_element(expr, record) for expr in where_expressions)
AllMatch(where, record) == \A i \in 1..Len(where) : Evaluate(where[i], record)

\* the list comprehension of select and its negation in delete_records
Matching(rows, where) == SelectSeq(rows, LAMBDA r : AllMatch(where, r))
NotMatching(rows, where) == SelectSeq(rows, LAMBDA r : ~AllMatch(where, r))

\* sorted(records, key=..., reverse=reverse): a stable sort on one column; with
\* reverse the rows of equal key keep their order too.  Place(sorted, r) puts r
\* behind the rows that do not come after it.
RECURSIVE Place(_, _, _, _)
Place(sorted, r, col, reverse) ==
    IF sorted = <<>> THEN <<r>>
    ELSE LET h == sorted[Len(sorted)]
             stays == IF reverse THEN h[col] >= r[col] ELSE h[col] <= r[col] IN
           IF stays THEN Append(sorted, r)
           ELSE Append(Place(SubSeq(sorted, 1, Len(sorted) - 1), r, col, reverse), h)

RECURSIVE Sorted(_, _, _)
Sorted(rows, col, reverse) ==
    IF rows = <<>> THEN <<>>
    ELSE Place(Sorted(SubSeq(rows, 1, Len(rows) - 1), col, reverse),
               rows[Len(rows)], col, reverse)

\* `for expr in order_by: records = sorted(records, ...)`: one sort after the other,
\* in the order of the list
RECURSIVE OrderBy(_, _)
OrderBy(rows, order) ==
    IF order = <<>> THEN rows
    ELSE OrderBy(Sorted(rows, order[1].col, order[1].desc), Tail(order))

\* select: filter, order; `if limit is None: records[:limit]` computes a slice and
\* drops it, so the rows are returned whatever the limit
SelectRows(rows, where, order, limit) == OrderBy(Matching(rows, where), order)

\* _set_primary_key_values: next(self._pk_generator) is evaluated for the key, then
\* record.setdefault(name, value) keeps a key that is present, None included
SetPrimaryKeyValues(record, gen) ==
    [record EXCEPT !.id = IF @ = Absent THEN gen ELSE @]

\* record.update(values)
Update(record, values) == [c \in Cols |-> IF values[c] = Absent THEN record[c] ELSE values[c]]

\* the where list upsert builds: primary_key == record.get(primary_key.name)
PrimaryKeyWhere(record) ==
    [i \in 1..Len(PrimaryKeys) |->
        IF Get(record, PrimaryKeys[i]) = Null
          THEN [col |-> PrimaryKeys[i], op |-> "is", val |-> Null]
          ELSE [col |-> PrimaryKeys[i], op |-> "eq", val |-> record[PrimaryKeys[i]]]]

\* the rows of the table, by position, that a list built by select holds: select
\* copies no dict, its result holds the dicts of the table
Positions(rows, where) == {i \in 1..Len(rows) : AllMatch(where, rows[i])}

First(positions) == CHOOSE i \in positions : \A j \in positions : i <= j

\* a task that is not propagating an exception runs the operation
CanOperate ==
    /\ mbudget.ops > 0
    /\ \E t \in Tasks : mtask[t].exc = None

\* outside: the task that ran the operation was inside no transaction block
Operated(l) ==
    /\ \E t \in Tasks :
          /\ mtask[t].exc = None
          /\ last' = [l EXCEPT !.outside = (mtask[t].own = <<>>)]
    /\ mbudget' = [mbudget EXCEPT !.ops = @ - 1]
    /\ UNCHANGED <<tmpRecords, transactionStack, mtask, nest, aiopgVars, libVars>>

\* MemoryDatabaseModelBackend.select
Select(where, order, limit) ==
    /\ CanOperate
    /\ Operated([NoOp EXCEPT !.op = "select", !.where = where, !.order = order,
                              !.limit = limit, !.before = records,
                              !.res = SelectRows(records, where, order, limit),
                              !.held = Positions(records, where),
                              !.list = (where = <<>> /\ order = <<>>)])
    /\ UNCHANGED <<records, pkGenerator>>

\* MemoryDatabaseModelBackend.create_records: the return value is the table's list
CreateRecords(recs) ==
    /\ CanOperate
    /\ LET created == [i \in 1..Len(recs) |-> SetPrimaryKeyValues(recs[i], pkGenerator + i - 1)] IN
         /\ records' = records \o created
         /\ pkGenerator' = pkGenerator + Len(recs)
         /\ Operated([NoOp EXCEPT !.op = "create_records", !.recs = recs,
                                   !.before = records, !.res = records',
                                   !.held = 1..Len(records'), !.list = TRUE])

\* faulty variant: a row goes as soon as one expression of the where list holds
DeleteRecords_AnyFilter(where) ==
    /\ CanOperate
    /\ records' = SelectSeq(records,
                            LAMBDA r : ~\E i \in 1..Len(where) : Evaluate(where[i], r))
    /\ Operated([NoOp EXCEPT !.op = "delete_records", !.where = where, !.before = records,
                              !.n = Len(records) - Len(records')])
    /\ UNCHANGED pkGenerator

\* MemoryDatabaseModelBackend.delete_records
DeleteRecords(where) ==
    /\ CanOperate
    /\ records' = NotMatching(records, where)
    /\ Operated([NoOp EXCEPT !.op = "delete_records", !.where = where, !.before = records,
                              !.n = Len(records) - Len(records')])
    /\ UNCHANGED pkGenerator

\* faulty variant: every row is updated, whatever the where list says
Updated_EveryRow(rows, where, values) ==
    [i \in 1..Len(rows) |-> Update(rows[i], values)]

\* the rows after update_records: the rows select returns are updated in place
Updated(rows, where, values) ==
    [i \in 1..Len(rows) |-> IF AllMatch(where, rows[i]) THEN Update(rows[i], values) ELSE rows[i]]

\* what update_records returns: the rows select returned, updated
UpdatedRows(rows, where, values) ==
    LET found == Matching(rows, where) IN
      [j \in 1..Len(found) |-> Update(found[j], values)]

\* MemoryDatabaseModelBackend.update_records
UpdateRecords(where, values) ==
    /\ CanOperate
    /\ records' = Updated(records, where, values)
    /\ Operated([NoOp EXCEPT !.op = "update_records", !.where = where, !.values = <<values>>,
                              !.before = records,
                              !.res = UpdatedRows(records, where, values),
                              !.held = Positions(records, where), !.list = (where = <<>>)])
    /\ UNCHANGED pkGenerator

\* faulty variant: the record is appended whether or not a row has its key
Upsert_AlwaysAppend(record) ==
    /\ CanOperate
    /\ LET new == SetPrimaryKeyValues(record, pkGenerator) IN
         /\ records' = Append(records, new)
         /\ pkGenerator' = pkGenerator + 1
         /\ Operated([NoOp EXCEPT !.op = "upsert", !.recs = <<record>>,
                                   !.before = records, !.res = <<new>>])

\* MemoryDatabaseModelBackend.upsert: update when every primary key of the record is
\* set and select finds a row, else set the missing keys and append the record
Upsert(record) ==
    /\ CanOperate
    /\ LET where == PrimaryKeyWhere(record)
           existing_records == SelectRows(records, where, <<>>, 1)
           isSet == \A i \in 1..Len(PrimaryKeys) : Get(record, PrimaryKeys[i]) # Null
           new == SetPrimaryKeyValues(record, pkGenerator) IN
         IF isSet /\ existing_records # <<>>
           THEN /\ records' = Updated(records, where, record)
                /\ UNCHANGED pkGenerator
                /\ Operated([NoOp EXCEPT !.op = "upsert", !.recs = <<record>>,
                                          !.before = records,
                                          !.res = <<UpdatedRows(records, where, record)[1]>>,
                                          !.held = {First(Positions(records, where))}])
           ELSE /\ records' = Append(records, new)
                /\ pkGenerator' = pkGenerator + 1
                /\ Operated([NoOp EXCEPT !.op = "upsert", !.recs = <<record>>,
                                          !.before = records, !.res = <<new>>,
                                          !.held = {Len(records')}])

\* --- the caller, after an operation has returned.  `last.held` are the rows whose
\* dict the caller holds: create_records and upsert store the dict they are given
\* (extend, append) and every operation returns the stored dicts; `last.list` says
\* that the list returned is the table's own list.
\* the caller assigns to keys of a dict it holds
CallerUpdatesDict(i, values) ==
    /\ last.op \in {"select", "create_records", "update_records", "upsert"}
    /\ i \in last.held
    /\ records' = [records EXCEPT ![i] = Update(@, values)]
    /\ last' = [NoOp EXCEPT !.op = "caller", !.before = records]
    /\ UNCHANGED <<tmpRecords, transactionStack, pkGenerator, mtask, mbudget, nest,
                   aiopgVars, libVars>>

\* the caller clears the list it was returned
CallerClearsList ==
    /\ last.op \in {"select", "create_records", "update_records"}
    /\ last.list
    /\ records' = <<>>
    /\ last' = [NoOp EXCEPT !.op = "caller", !.before = records]
    /\ UNCHANGED <<tmpRecords, transactionStack, pkGenerator, mtask, mbudget, nest,
                   aiopgVars, libVars>>

\* ------------------------------------------------------ MemoryTransaction
MemFrame == <<records, pkGenerator, mbudget, aiopgVars, libVars>>

\* faulty variant: every start takes a backup, the nested ones too
MemStart_AlwaysBackup(t) ==
    /\ mtask[t].exc = None
    /\ mbudget.trx[t] > 0
    /\ LET self == Trx(t, mbudget.trx[t])
           is_root == transactionStack = <<>> IN
         /\ tmpRecords' = <<records>>
         /\ transactionStack' = Append(transactionStack, self)
         /\ mtask' = [mtask EXCEPT ![t].own = Append(@, self)]
         /\ nest' = IF is_root THEN [rootAt |-> records, rolled |-> FALSE, committed |-> FALSE]
                               ELSE nest
         /\ last' = [NoOp EXCEPT !.op = "start", !.root = is_root, !.before = records]
    /\ mbudget' = [mbudget EXCEPT !.trx[t] = @ - 1]
    /\ UNCHANGED <<records, pkGenerator, aiopgVars, libVars>>

\* `async with backend.transaction():` __aenter__ -> start(); the lock is free, so
\* the block under it runs without suspension
MemStart(t) ==
    /\ mtask[t].exc = None
    /\ mbudget.trx[t] > 0
    /\ LET self == Trx(t, mbudget.trx[t])
           is_root == transactionStack = <<>> IN
         /\ tmpRecords' = IF is_root THEN <<records>> ELSE tmpRecords
         /\ transactionStack' = Append(transactionStack, self)
         /\ mtask' = [mtask EXCEPT ![t].own = Append(@, self)]
         /\ nest' = IF is_root THEN [rootAt |-> records, rolled |-> FALSE, committed |-> FALSE]
                               ELSE nest
         /\ last' = [NoOp EXCEPT !.op = "start", !.root = is_root, !.before = records]
    /\ mbudget' = [mbudget EXCEPT !.trx[t] = @ - 1]
    /\ UNCHANGED <<records, pkGenerator, aiopgVars, libVars>>

\* the body of the innermost block raises E
MemRaise(t) ==
    /\ mtask[t].own # <<>>
    /\ mtask[t].exc = None
    /\ mtask' = [mtask EXCEPT ![t] = [@ EXCEPT !.exc = "E", !.exitIn = None, !.exitOut = None]]
    /\ UNCHANGED <<tmpRecords, transactionStack, last, nest, MemFrame>>

\* the caller catches the exception that left a block (try/except around it)
MemCatch(t) ==
    /\ mtask[t].exc # None
    /\ mtask[t].exitOut = mtask[t].exc
    /\ mtask' = [mtask EXCEPT ![t].exc = None]
    /\ UNCHANGED <<tmpRecords, transactionStack, last, nest, MemFrame>>

\* faulty variant: every rollback restores the backup, the nested ones too
MemExit_NestedRestores(t) ==
    /\ mtask[t].own # <<>>
    /\ LET self == mtask[t].own[Len(mtask[t].own)]
           exc == mtask[t].exc
           left == SubSeq(mtask[t].own, 1, Len(mtask[t].own) - 1)
           popped == SubSeq(transactionStack, 1, Len(transactionStack) - 1)
           is_root == popped = <<>>
           op == IF exc # None THEN "rollback" ELSE "commit" IN
         IF transactionStack[Len(transactionStack)] # self
           THEN /\ mtask' = [mtask EXCEPT ![t] = [own |-> left, exc |-> "AssertionError",
                                                   exitIn |-> exc, exitOut |-> "AssertionError"]]
                /\ last' = [NoOp EXCEPT !.op = op, !.before = records]
                /\ UNCHANGED <<records, tmpRecords, transactionStack, nest>>
           ELSE /\ transactionStack' = popped
                /\ mtask' = [mtask EXCEPT ![t] = [own |-> left, exc |-> exc,
                                                   exitIn |-> exc, exitOut |-> exc]]
                /\ records' = IF op = "rollback" THEN tmpRecords[1] ELSE records
                /\ tmpRecords' = IF op = "commit" /\ is_root THEN <<>> ELSE tmpRecords
                /\ nest' = [nest EXCEPT !.rolled = @ \/ op = "rollback",
                                         !.committed = @ \/ (op = "commit" /\ ~is_root)]
                /\ last' = [NoOp EXCEPT !.op = op, !.root = is_root, !.before = records]
    /\ UNCHANGED <<pkGenerator, mbudget, aiopgVars, libVars>>

\* __aexit__ of the innermost block: rollback() when an exception leaves the body,
\* else commit(); both assert that the transaction is the top of the stack
MemExit(t) ==
    /\ mtask[t].own # <<>>
    /\ LET self == mtask[t].own[Len(mtask[t].own)]
           exc == mtask[t].exc
           left == SubSeq(mtask[t].own, 1, Len(mtask[t].own) - 1)
           popped == SubSeq(transactionStack, 1, Len(transactionStack) - 1)
           is_root == popped = <<>>
           op == IF exc # None THEN "rollback" ELSE "commit" IN
         IF transactionStack[Len(transactionStack)] # self
           THEN /\ mtask' = [mtask EXCEPT ![t] = [own |-> left, exc |-> "AssertionError",
                                                   exitIn |-> exc, exitOut |-> "AssertionError"]]
                /\ last' = [NoOp EXCEPT !.op = op, !.before = records]
                /\ UNCHANGED <<records, tmpRecords, transactionStack, nest>>
           ELSE /\ transactionStack' = popped
                /\ mtask' = [mtask EXCEPT ![t] = [own |-> left, exc |-> exc,
                                                   exitIn |-> exc, exitOut |-> exc]]
                /\ records' = IF op = "rollback" /\ is_root THEN tmpRecords[1] ELSE records
                /\ tmpRecords' = IF op = "commit" /\ is_root THEN <<>> ELSE tmpRecords
                /\ nest' = [nest EXCEPT !.rolled = @ \/ op = "rollback",
                                         !.committed = @ \/ (op = "commit" /\ ~is_root)]
                /\ last' = [NoOp EXCEPT !.op = op, !.root = is_root, !.before = records]
    /\ UNCHANGED <<pkGenerator, mbudget, aiopgVars, libVars>>

Next ==
    \E t \in AllTasks :
        \/ TransactionEnter(t)
        \/ TransactionAcquired(t)
        \/ TransactionAcquireFailed(t)
        \/ \E ok \in BOOLEAN : TransactionBegun(t, ok)
        \/ TransactionBeginFailed(t)
        \/ ConditionalEnter(t)
        \/ ConditionalAcquired(t)
        \/ ConditionalAcquireFailed(t)
        \/ ExecuteStart(t)
        \/ \E ok \in BOOLEAN : ExecuteDone(t, ok)
        \/ ScopeExit(t)
        \/ ExitLocked(t)
        \/ \E ok \in BOOLEAN : ExitFinished(t, ok)
        \/ ExitClosed(t)
        \/ ConditionalClosed(t)

Spec == Init /\ [][Next]_vars

NextGather ==
    \/ Next
    \/ \E t \in AllTasks :
        \/ Gather(t)
        \/ SiblingReturn(t)
        \/ GatherDone(t)

SpecGather == InitGather /\ [][NextGather]_vars

\* ------------------------------------------------------------ task.cancel()
\* CancelledError is raised in the task at the await it is suspended in:
\* in LockedConnection.execute, inside `async with self.lock`, which releases the
\* lock and lets the error leave the body of the scopes the task is inside
CancelInExecute(t) ==
    /\ pc[t] = "execute"
    /\ ~Top(t).cancelled
    /\ LET f == Top(t)
           c == f.ret IN
         conn' = [conn EXCEPT ![c] = [Return(@, t) EXCEPT
                                         !.lock = IF f.raw = NoConn THEN None ELSE @]]
    /\ frames' = [frames EXCEPT ![t] = [i \in 1..Len(@) |-> [@[i] EXCEPT !.cancelled = TRUE]]]
    /\ pc' = [pc EXCEPT ![t] = "raising"]
    /\ UNCHANGED <<connections, ctxVar, nextConn, db, budget, faults, chain, lastExit, memVars, libVars>>

\* in transaction.__aexit__ at `async with conn.lock:`, waiting for the lock: the
\* error leaves __aexit__ before the try/finally is entered
CancelInExitLock(t) ==
    /\ pc[t] = "exit_lock"
    /\ Leave(t, [Top(t) EXCEPT !.cancelled = TRUE], "cancelled")
    /\ UNCHANGED <<connections, ctxVar, conn, nextConn, db, budget, faults, chain, memVars, libVars>>

NextCancel ==
    \/ NextGather
    \/ \E t \in Tasks :
        \/ CancelInExecute(t)
        \/ CancelInExitLock(t)

SpecCancel == InitCancel /\ [][NextCancel]_vars

\* ----------------------------------------- in-memory backend: inputs, runs
Row(id, x, y) == [id |-> id, x |-> x, y |-> y]
Eq(col, val) == [col |-> col, op |-> "eq", val |-> val]
Asc(col) == [col |-> col, desc |-> FALSE]
Desc(col) == [col |-> col, desc |-> TRUE]

\* the tables a backend is constructed with: rows with serial keys
BootTables ==
    UNION {{[i \in 1..n |-> Row(i, xs[i], ys[i])] : xs \in [1..n -> Vals], ys \in [1..n -> Vals]}
           : n \in 0..MaxRows}

Wheres == {<<>>, <<Eq("x", 1)>>, <<Eq("x", 1), Eq("y", 1)>>}
Orders == {<<>>, <<Asc("x")>>, <<Desc("x")>>, <<Asc("x"), Asc("y")>>, <<Asc("x"), Desc("y")>>}
Limits == {NoLimit, 1, 2}
UpsertInputs == {Row(id, x, 1) : id \in {Absent, Null, 1, 2}, x \in Vals}
NewRecords == {Row(Absent, 1, 1), Row(Null, 2, 1), Row(1, 1, 2)}
CreateInputs == {<<>>} \cup {<<r>> : r \in NewRecords}
                       \cup {<<r, q>> : r \in NewRecords, q \in NewRecords}
UpdateValues == {Row(Absent, 2, Absent), Row(Absent, Absent, 2)}

\* one operation on the table of a backend constructed with some rows
InitBackend ==
    /\ AiopgInit([t \in AllTasks |-> [exec |-> 0, enter |-> 0]])
    /\ \E rows \in BootTables : MemInit(rows, [NoMemBudget EXCEPT !.ops = 1])
    /\ LibInit

NextBackend ==
    \/ \E where \in Wheres, order \in Orders, limit \in Limits : Select(where, order, limit)
    \/ \E recs \in CreateInputs : CreateRecords(recs)
    \/ \E where \in Wheres : DeleteRecords(where)
    \/ \E where \in Wheres, values \in UpdateValues : UpdateRecords(where, values)
    \/ \E record \in UpsertInputs : Upsert(record)
    \/ \E i \in 1..(MaxRows + 2), values \in UpdateValues : CallerUpdatesDict(i, values)
    \/ CallerClearsList

SpecBackend == InitBackend /\ [][NextBackend]_vars

\* two tasks enter and leave MemoryTransaction blocks on one backend, which starts
\* empty, and write to the table
TrxBudget(t) == IF t = Parent THEN MaxTrx ELSE 1
TrxWrites == {Row(1, 1, 1), Row(1, 2, 1), Row(Absent, 1, 1)}

InitMemory ==
    /\ AiopgInit([t \in AllTasks |-> [exec |-> 0, enter |-> 0]])
    /\ MemInit(<<>>, [ops |-> MaxOps, trx |-> [t \in Tasks |-> TrxBudget(t)]])
    /\ LibInit

NextMemory ==
    \/ \E t \in Tasks :
        \/ MemStart(t)
        \/ MemRaise(t)
        \/ MemCatch(t)
        \/ MemExit(t)
    \/ \E record \in TrxWrites : CreateRecords(<<record>>)
    \/ \E record \in TrxWrites : Upsert(record)
    \/ DeleteRecords(<<Eq("x", 1)>>)
    \/ UpdateRecords(<<>>, Row(Absent, 2, Absent))

SpecMemory == InitMemory /\ [][NextMemory]_vars

\* ==================================================== backends/context.py
Backends == {"b1", "b2"}

\* get_backend(): `_backend.get()`, which is the default None while the variable is
\* not set in the task's context
GetBackend(t) == IF backend[t] = "MISSING" THEN None ELSE backend[t]

\* `with set_backend(b):` up to the yield: token = _backend.set(b); the token holds
\* what the variable was
SetBackend(t, b) ==
    /\ ~bk[t].exc
    /\ Len(using[t]) < MaxBlocks
    /\ backend' = [backend EXCEPT ![t] = b]
    /\ using' = [using EXCEPT ![t] = Append(@, [backend |-> b, token |-> backend[t],
                                                  prev |-> GetBackend(t)])]
    /\ bk' = [bk EXCEPT ![t].last = [NoStep EXCEPT !.op = "enter", !.prev = GetBackend(t)]]
    /\ UNCHANGED <<evalVars, engineVars, aiopgVars, memVars, sqlVars>>

\* a call of get_backend() by the task, inside its blocks or outside any
GetBackendCall(t) ==
    /\ ~bk[t].exc
    /\ bk' = [bk EXCEPT ![t].last = [NoStep EXCEPT !.op = "get", !.res = GetBackend(t)]]
    /\ UNCHANGED <<backend, using, evalVars, engineVars, aiopgVars, memVars, sqlVars>>

\* the body of the innermost block raises
BodyRaises(t) ==
    /\ using[t] # <<>>
    /\ ~bk[t].exc
    /\ bk' = [bk EXCEPT ![t].exc = TRUE]
    /\ UNCHANGED <<backend, using, evalVars, engineVars, aiopgVars, memVars, sqlVars>>

\* faulty variant: the block ends without resetting the variable
SetBackendExit_NoReset(t) ==
    /\ using[t] # <<>>
    /\ LET block == using[t][Len(using[t])] IN
         /\ using' = [using EXCEPT ![t] = SubSeq(@, 1, Len(@) - 1)]
         /\ bk' = [bk EXCEPT ![t].last = [NoStep EXCEPT !.op = "exit", !.prev = block.prev,
                                                         !.left = block.backend]]
    /\ UNCHANGED <<backend, evalVars, engineVars, aiopgVars, memVars, sqlVars>>

\* the end of the innermost block, by return or by exception: the `finally` of
\* set_backend runs _backend.reset(token); an exception goes on to the caller
SetBackendExit(t) ==
    /\ using[t] # <<>>
    /\ LET block == using[t][Len(using[t])] IN
         /\ backend' = [backend EXCEPT ![t] = block.token]
         /\ using' = [using EXCEPT ![t] = SubSeq(@, 1, Len(@) - 1)]
         /\ bk' = [bk EXCEPT ![t].last = [NoStep EXCEPT !.op = "exit", !.prev = block.prev,
                                                         !.left = block.backend]]
    /\ UNCHANGED <<evalVars, engineVars, aiopgVars, memVars, sqlVars>>

\* the caller catches the exception that left a block
BodyCaught(t) ==
    /\ bk[t].exc
    /\ bk[t].last.op = "exit"
    /\ bk' = [bk EXCEPT ![t].exc = FALSE]
    /\ UNCHANGED <<backend, using, evalVars, engineVars, aiopgVars, memVars, sqlVars>>

InitContext ==
    /\ AiopgInit([t \in AllTasks |-> [exec |-> 0, enter |-> 0]])
    /\ MemInit(<<>>, NoMemBudget)
    /\ LibInit

NextContext ==
    \E t \in Tasks :
        \/ \E b \in Backends : SetBackend(t, b)
        \/ GetBackendCall(t)
        \/ BodyRaises(t)
        \/ SetBackendExit(t)
        \/ BodyCaught(t)

SpecContext == InitContext /\ [][NextContext]_vars

\* ============================================== evaluate_column_element.py
\* a Python bool as a value
PyBool(b) == IF b THEN PyTrue ELSE PyFalse

\* bool(value): None and False are false, True and the integers 1, 2 are true
Bool(v) == v \notin {Null, PyFalse}

\* operator.and_ / operator.or_, which are `&` and `|`: defined on two bools, a
\* TypeError when an operand is None.  The children of the clause lists evaluated
\* here are comparisons and boolean columns, so the operands are True, False or None.
BitOp(operator, a, b) ==
    IF a = Raised \/ b = Raised THEN Raised
    ELSE IF a = Null \/ b = Null THEN Raised
    ELSE IF operator = "and_" THEN PyBool(a = PyTrue /\ b = PyTrue)
    ELSE PyBool(a = PyTrue \/ b = PyTrue)

\* functools.reduce(operator, values): from the left, no initial value
RECURSIVE Reduce(_, _)
Reduce(operator, values) ==
    IF Len(values) = 1 THEN values[1]
    ELSE BitOp(operator, Reduce(operator, SubSeq(values, 1, Len(values) - 1)),
               values[Len(values)])

\* faulty variant: `in` looks at the first listed value only
Operate_InFirst(operator, x, y) ==
    CASE operator = "in_op" -> PyBool(y # <<>> /\ y[1] = x)
      [] operator = "is_" -> PyBool(x = y)
      [] operator = "is_not" -> PyBool(x # y)
      [] operator = "eq" -> PyBool(x = y)
      [] operator = "ne" -> PyBool(x # y)

\* _evaluate_binary_expression: in_op is replaced by `x in y`, is_ by `x is y`,
\* is_not by `x != y`; == and != are Python's own.  The right operand of is_ and
\* is_not is None, where identity and equality agree.
Operate(operator, x, y) ==
    CASE operator = "in_op" -> PyBool(\E i \in 1..Len(y) : y[i] = x)
      [] operator = "is_" -> PyBool(x = y)
      [] operator = "is_not" -> PyBool(x # y)
      [] operator = "eq" -> PyBool(x = y)
      [] operator = "ne" -> PyBool(x # y)

\* evaluate_column_element, by the kind of the node
RECURSIVE EvaluateColumnElement(_, _)
EvaluateColumnElement(e, m) ==
    CASE e.kind = "Column" -> Get(m, e.name)
      [] e.kind = "BindParameter" -> e.value
      [] e.kind = "Null" -> Null
      [] e.kind = "True_" -> PyTrue
      [] e.kind = "False_" -> PyFalse
      [] e.kind = "Grouping" ->
           [i \in 1..Len(e.args) |-> EvaluateColumnElement(e.args[i], m)]
      [] e.kind = "BinaryExpression" ->
           Operate(e.operator, EvaluateColumnElement(e.args[1], m),
                               EvaluateColumnElement(e.args[2], m))
      [] e.kind = "BooleanClauseList" ->
           Reduce(e.operator, [i \in 1..Len(e.args) |-> EvaluateColumnElement(e.args[i], m)])
      [] e.kind = "AsBoolean" ->
           LET r == Bool(EvaluateColumnElement(e.args[1], m)) IN
             IF e.operator = "is_false" THEN PyBool(~r) ELSE PyBool(r)

\* a call of evaluate_column_element(element, model)
EvaluateCall ==
    /\ result = <<>>
    /\ result' = <<EvaluateColumnElement(element, model)>>
    /\ UNCHANGED <<element, model, contextVars, engineVars, aiopgVars, memVars, sqlVars>>

\* --- inputs: records with an integer column and a boolean column, either of which
\* may be None or missing
Models == [x : {Absent, Null} \cup Vals, flag : {Absent, Null, PyTrue, PyFalse}]

InList(vals) == Grouping([i \in 1..Len(vals) |-> BindParameter(vals[i])])

Comparisons ==
    {BinaryExpression(Column("x"), op, BindParameter(1)) : op \in {"eq", "ne"}}
    \cup {BinaryExpression(Column(c), op, NullNode) : c \in {"x", "flag"}, op \in {"is_", "is_not"}}
    \cup {BinaryExpression(Column("x"), "in_op", InList(vals)) :
              vals \in {<<1>>, <<1, 2>>, <<2, 1>>, <<2, Null>>}}

Atoms == {Column("flag"), BinaryExpression(Column("x"), "eq", BindParameter(1)),
          BinaryExpression(Column("x"), "ne", BindParameter(2)),
          BinaryExpression(Column("x"), "is_", NullNode)}

Filters ==
    Comparisons
    \cup {AsBoolean(Column("flag"), op) : op \in {"is_false", "is_true"}}
    \cup {True_, False_}
    \cup UNION {{BooleanClauseList(op, kids) : op \in {"and_", "or_"}, kids \in [1..n -> Atoms]}
                : n \in 2..MaxKids}

Elements == Filters \cup {Column("x"), Column("flag")}

InitEvaluate ==
    /\ AiopgInit([t \in AllTasks |-> [exec |-> 0, enter |-> 0]])
    /\ MemInit(<<>>, NoMemBudget)
    /\ ContextInit
    /\ EngineInit
    /\ SqlInit
    /\ element \in Elements
    /\ model \in Models
    /\ result = <<>>

NextEvaluate == EvaluateCall

SpecEvaluate == InitEvaluate /\ [][NextEvaluate]_vars

\* ============================================================= engines.py
\* objects that calls suspended in create_engine / create_pool will still make
Creating == Cardinality({t \in Tasks : call[t].pc = "creating"})

\* faulty variant: the cached entry is returned without looking at `closed`
GetEngine_AnyCached(t, kind, force, if_exists) ==
    /\ call[t].pc # "creating"
    /\ LET engine == cached[kind]
           found == [NoCall EXCEPT !.kind = kind, !.force = force, !.if_exists = if_exists,
                                   !.seen = engine,
                                   !.seenClosed = engine # NoEngine /\ engineObj[engine] = "closed"] IN
         IF if_exists /\ engine = NoEngine
           THEN call' = [call EXCEPT ![t] = [found EXCEPT !.pc = "done"]]
         ELSE IF engine = NoEngine \/ force
           THEN /\ nextEngine + Creating <= MaxEngines
                /\ call' = [call EXCEPT ![t] = [found EXCEPT !.pc = "creating"]]
         ELSE call' = [call EXCEPT ![t] = [found EXCEPT !.pc = "done", !.ret = engine,
                                                         !.retOpen = engineObj[engine] = "open",
                                                         !.stored = cached[kind] = engine]]
    /\ UNCHANGED <<cached, engineObj, nextEngine, contextVars, evalVars, aiopgVars, memVars, sqlVars>>

\* get_aiopg_engine / get_asyncpgsa_pool up to `await create_engine(...)` /
\* `await create_pool(...)`, or to the return when nothing is created
GetEngine(t, kind, force, if_exists) ==
    /\ call[t].pc # "creating"
    /\ LET engine == cached[kind]
           found == [NoCall EXCEPT !.kind = kind, !.force = force, !.if_exists = if_exists,
                                   !.seen = engine,
                                   !.seenClosed = engine # NoEngine /\ engineObj[engine] = "closed"] IN
         IF if_exists /\ engine = NoEngine
           THEN call' = [call EXCEPT ![t] = [found EXCEPT !.pc = "done"]]
         ELSE IF engine = NoEngine \/ force \/ engineObj[engine] = "closed"
           THEN /\ nextEngine + Creating <= MaxEngines
                /\ call' = [call EXCEPT ![t] = [found EXCEPT !.pc = "creating"]]
         ELSE call' = [call EXCEPT ![t] = [found EXCEPT !.pc = "done", !.ret = engine,
                                                         !.retOpen = engineObj[engine] = "open",
                                                         !.stored = cached[kind] = engine]]
    /\ UNCHANGED <<cached, engineObj, nextEngine, contextVars, evalVars, aiopgVars, memVars, sqlVars>>

\* faulty variant: storing under a key that was filled during the await raises
GetEngineCreated_RaisesWhenFilled(t) ==
    /\ call[t].pc = "creating"
    /\ engineObj' = [engineObj EXCEPT ![nextEngine] = "open"]
    /\ nextEngine' = nextEngine + 1
    /\ IF cached[call[t].kind] = call[t].seen
         THEN /\ cached' = [cached EXCEPT ![call[t].kind] = nextEngine]
              /\ call' = [call EXCEPT ![t] = [@ EXCEPT !.pc = "done", !.made = nextEngine,
                                                        !.ret = nextEngine,
                                                        !.retOpen = engineObj'[nextEngine] = "open",
                                                        !.stored = cached'[call[t].kind] = nextEngine]]
         ELSE /\ cached' = cached
              /\ call' = [call EXCEPT ![t] = [@ EXCEPT !.pc = "raised"]]
    /\ UNCHANGED <<contextVars, evalVars, aiopgVars, memVars, sqlVars>>

\* create_engine / create_pool has returned: the object is stored under the key and
\* returned
GetEngineCreated(t) ==
    /\ call[t].pc = "creating"
    /\ engineObj' = [engineObj EXCEPT ![nextEngine] = "open"]
    /\ cached' = [cached EXCEPT ![call[t].kind] = nextEngine]
    /\ nextEngine' = nextEngine + 1
    /\ call' = [call EXCEPT ![t] = [@ EXCEPT !.pc = "done", !.made = nextEngine,
                                              !.ret = nextEngine,
                                              !.retOpen = engineObj'[nextEngine] = "open",
                                              !.stored = cached'[call[t].kind] = nextEngine]]
    /\ UNCHANGED <<contextVars, evalVars, aiopgVars, memVars, sqlVars>>

\* create_engine / create_pool has raised: the exception leaves the call
GetEngineCreateFailed(t) ==
    /\ call[t].pc = "creating"
    /\ call' = [call EXCEPT ![t] = [@ EXCEPT !.pc = "raised"]]
    /\ UNCHANGED <<cached, engineObj, nextEngine, contextVars, evalVars, aiopgVars, memVars, sqlVars>>

\* an engine or pool is closed, by DBEngine.close or by whoever holds it
EngineClose(e) ==
    /\ engineObj[e] = "open"
    /\ engineObj' = [engineObj EXCEPT ![e] = "closed"]
    /\ UNCHANGED <<cached, nextEngine, call, contextVars, evalVars, aiopgVars, memVars, sqlVars>>

InitEngines ==
    /\ AiopgInit([t \in AllTasks |-> [exec |-> 0, enter |-> 0]])
    /\ MemInit(<<>>, NoMemBudget)
    /\ LibInit

NextEngines ==
    \/ \E t \in Tasks :
        \/ \E kind \in EngineKinds, force \in BOOLEAN, if_exists \in BOOLEAN :
               GetEngine(t, kind, force, if_exists)
        \/ GetEngineCreated(t)
        \/ GetEngineCreateFailed(t)
    \/ \E e \in EngineIds : EngineClose(e)

SpecEngines == InitEngines /\ [][NextEngines]_vars

\* ========================================================= backends/sql.py
\* what the driver answers to a query: rows, InvalidTextRepresentation (a value of
\* the wrong type for its column), or another error
DriverAnswers == {"ok", "InvalidTextRepresentation", "OtherError"}

\* try: ... except InvalidTextRepresentation as e: raise InvalidFieldValue(...)
Translated(answer) ==
    IF answer = "InvalidTextRepresentation" THEN "InvalidFieldValue" ELSE answer

\* the log after a call that returned ("ok") or raised `out`
Logged(op, answer, out) == Append(sqlLog, [op |-> op, answer |-> answer, out |-> out])

SqlFrame == <<contextVars, evalVars, engineVars, aiopgVars, memVars>>

\* select: fetch_all inside the try
SqlSelect(answer) ==
    /\ Len(sqlLog) < MaxCalls
    /\ sqlLog' = Logged("select", answer, Translated(answer))
    /\ UNCHANGED SqlFrame

\* create_records: nothing is sent for an empty list; else fetch_all inside
\* `async with self.transaction()`, with no try around it
SqlCreateRecords(empty, answer) ==
    /\ Len(sqlLog) < MaxCalls
    /\ empty => answer = "ok"
    /\ sqlLog' = IF empty THEN Logged("create_records", "unasked", "ok")
                 ELSE Logged("create_records", answer, answer)
    /\ UNCHANGED SqlFrame

\* delete_records: execute inside the try, inside the transaction
SqlDeleteRecords(answer) ==
    /\ Len(sqlLog) < MaxCalls
    /\ sqlLog' = Logged("delete_records", answer, Translated(answer))
    /\ UNCHANGED SqlFrame

\* update_records: fetch_all inside the try, inside the transaction
SqlUpdateRecords(answer) ==
    /\ Len(sqlLog) < MaxCalls
    /\ sqlLog' = Logged("update_records", answer, Translated(answer))
    /\ UNCHANGED SqlFrame

\* upsert: fetch_one inside the transaction, with no try around it
SqlUpsert(answer) ==
    /\ Len(sqlLog) < MaxCalls
    /\ sqlLog' = Logged("upsert", answer, answer)
    /\ UNCHANGED SqlFrame

InitSql ==
    /\ AiopgInit([t \in AllTasks |-> [exec |-> 0, enter |-> 0]])
    /\ MemInit(<<>>, NoMemBudget)
    /\ LibInit

NextSql ==
    \E answer \in DriverAnswers :
        \/ SqlSelect(answer)
        \/ \E empty \in BOOLEAN : SqlCreateRecords(empty, answer)
        \/ SqlDeleteRecords(answer)
        \/ SqlUpdateRecords(answer)
        \/ SqlUpsert(answer)

SpecSql == InitSql /\ [][NextSql]_vars

\* ======================================================== properties
\* the scope objects of a task: those it is inside, and the last one it left
Scopes(t) == {frames[t][i] : i \in 1..Len(frames[t])} \cup ({lastExit[t]} \ {NoScope})

Live == UNION {Scopes(t) : t \in AllTasks}

Exited(x) == x.out \in {"ok", "err"}

\* the index of the first occurrence of op among the calls of x (0: none)
Pos(x, op) == IF Has(x, op) THEN CHOOSE i \in 1..Len(x.ops) :
                                   x.ops[i] = op /\ \A j \in 1..(i - 1) : x.ops[j] # op
              ELSE 0

\* C1: a chain of nested transaction scopes of one task whose outermost scope found
\* no stored connection, left by an exception raised inside: the outermost exit
\* issued rollback and no commit, and no write of the chain is observable
C1_NestedFailureRollsBack ==
    \A t \in AllTasks :
        LET x == lastExit[t] IN
          (x.kind = "trx" /\ x.top /\ x.depth = 1 /\ x.pure /\ x.exc /\ Exited(x))
            => /\ Has(x, "rollback")
               /\ ~Has(x, "commit")
               /\ x.w \cap db = {}

\* C2: a connection wrapped in a LockedConnection runs at most one execute at a time,
\* the task whose execute runs holds the lock, and the lock is free again once that
\* execute has returned or raised
C2_OneExecuteInFlight ==
    \A c \in ConnIds :
        conn[c].wrapped =>
            /\ Cardinality(conn[c].inflight) <= 1
            /\ \A t \in conn[c].inflight : conn[c].lock = t /\ pc[t] = "execute"
            /\ \A t \in AllTasks :
                 (conn[c].lock = t /\ pc[t] \notin {"finish", "exit_close"})
                    => t \in conn[c].inflight

\* an execute runs on a LockedConnection while another task inside a scope on the
\* same LockedConnection has an execute to issue
C2_Witness ==
    \E c \in ConnIds, t \in AllTasks, u \in AllTasks :
        /\ t # u
        /\ conn[c].wrapped /\ conn[c].inflight = {t}
        /\ pc[u] = "idle" /\ frames[u] # <<>> /\ budget[u].exec > 0
        /\ Top(u).ret = c /\ Top(u).raw = NoConn

\* C3: a scope (transaction or ConditionalTransaction) entered while a connection is
\* stored returns that connection and issues no acquire, begin, commit, rollback or
\* close on entry or exit; a scope entered while none is stored issues one begin
C3_NestedScopeIsPassive ==
    \A t \in AllTasks : \A x \in Scopes(t) :
        /\ x.assoc # NoConn => x.ret = x.assoc /\ x.ops = <<>> /\ ~x.top
        /\ (x.kind = "trx" /\ x.assoc = NoConn) =>
              /\ Count(x, "begin") <= 1
              /\ (x.ret # NoConn => Count(x, "begin") = 1)
              /\ (Exited(x) => Count(x, "begin") = 1)

\* a task left a nested ConditionalTransaction and is still inside the outermost
\* transaction scope, which has issued its begin
C3_Witness ==
    \E t \in AllTasks :
        /\ lastExit[t].kind = "cond" /\ lastExit[t].assoc # NoConn /\ lastExit[t].depth = 2
        /\ Len(frames[t]) = 1 /\ frames[t][1].top /\ Count(frames[t][1], "begin") = 1
        /\ frames[t][1].ret = lastExit[t].ret

\* C4: the exit of an outermost transaction scope (entered with no connection stored)
\* issues exactly one of commit and rollback, once: rollback when an exception left
\* the body, commit otherwise; nothing of the two is issued before the exit
C4_ExactlyOneCommitOrRollback ==
    \A t \in AllTasks : \A x \in Scopes(t) :
        x.top =>
            /\ Count(x, "commit") + Count(x, "rollback") <= 1
            /\ (Has(x, "commit") \/ Has(x, "rollback")) => x.lk # NoConn
            /\ Exited(x) =>
                 /\ Count(x, "commit") + Count(x, "rollback") = 1
                 /\ x.exc <=> Has(x, "rollback")
                 /\ (x.out = "ok" => conn[x.trx].trx = "committed")

\* an outermost scope was left by an exception and has issued its rollback
C4_Witness ==
    \E t \in AllTasks :
        /\ lastExit[t].top /\ lastExit[t].exc /\ Exited(lastExit[t])
        /\ Has(lastExit[t], "rollback")

\* C5: when an outermost scope has exited, it has called clear() and then close(),
\* no connection is stored any more right after the clear(), and the connection of
\* the scope is closed; also when commit or rollback raised
C5_ClearedThenClosed ==
    \A t \in AllTasks :
        LET x == lastExit[t] IN
          (x.top /\ Exited(x)) =>
              /\ 0 < Pos(x, "clear") /\ Pos(x, "clear") < Pos(x, "close")
              /\ x.after = NoConn
              /\ conn[x.trx].st = "closed"

\* C6: a task never gets from get() a connection stored by the open outermost scope
\* of a task that is neither itself nor the parent that started it inside the scope,
\* and an outermost scope locks and closes on exit the connection it acquired
C6_TasksDoNotShareScope ==
    /\ \A t \in AllTasks : \A x \in Scopes(t) :
         x.assoc # NoConn =>
            \/ conn[x.assoc].owner = t
            \/ t \in Siblings /\ conn[x.assoc].owner = Parent
            \/ \A g \in Scopes(conn[x.assoc].owner) : g.ret = x.assoc => g.out # None
    /\ \A t \in AllTasks : \A x \in Scopes(t) :
         (x.top /\ x.lk # NoConn) => x.lk = x.ret

\* C7: right after set(conn), get() returns conn; right after the clear() of the
\* instance that set it, get() returns None
C7_SetGetClear ==
    \A x \in Live :
        /\ Has(x, "set") => x.seen = x.ret
        /\ Has(x, "clear") => x.after = NoConn

\* C8: the siblings gathered inside one outermost transaction scope execute on the
\* connection of that scope; when all returned and the scope exited without error
\* their writes are all observable, and when the scope was left by an exception none is
C8_SiblingsShareTheScope ==
    LET p == lastExit[Parent]
        sw == UNION {chain[s].w : s \in Siblings} IN
      /\ \A s \in Siblings : \A x \in Scopes(s) :
           (frames[Parent] # <<>> /\ frames[Parent][1].top /\ pc[Parent] = "gather")
              => x.ret = frames[Parent][1].ret
      /\ (p.top /\ p.depth = 1 /\ p.out = "ok" /\ \A s \in Siblings : pc[s] = "done_ok")
           => sw \subseteq db
      /\ (p.top /\ p.depth = 1 /\ p.out = "err" /\ p.exc) => sw \cap db = {}

\* C9: when begin raised in the entry of an outermost scope, the scope has closed the
\* acquired connection and cleared the stored connection, and has issued neither
\* commit nor rollback
C9_BeginFailureCleansUp ==
    \A t \in AllTasks :
        LET x == lastExit[t] IN
          x.out = "enter_err" =>
              /\ conn[x.ret].st = "closed"
              /\ Has(x, "close") /\ Has(x, "clear")
              /\ x.after = NoConn
              /\ ~Has(x, "commit") /\ ~Has(x, "rollback")

\* C10: a ConditionalTransaction entered while no connection is stored acquires one
\* connection, never issues begin, commit or rollback (nor stores the connection),
\* and has closed the connection when it has exited, with or without an exception
C10_ConditionalIsBareCheckout ==
    \A t \in AllTasks : \A x \in Scopes(t) :
        (x.kind = "cond" /\ x.assoc = NoConn) =>
            /\ \A i \in 1..Len(x.ops) : x.ops[i] \in {"acquire", "close"}
            /\ Count(x, "acquire") <= 1
            /\ ~x.top
            /\ x.raw # NoConn => x.ret = x.raw /\ conn[x.raw].trx = "none"
                                 /\ conn[x.raw].owner = t /\ TCCGet(t) # x.raw
            /\ Exited(x) => x.ops = <<"acquire", "close">> /\ conn[x.raw].st = "closed"

\* a ConditionalTransaction that found no stored connection was left by an exception
C10_Witness ==
    \E t \in AllTasks :
        /\ lastExit[t].kind = "cond" /\ lastExit[t].assoc = NoConn
        /\ lastExit[t].out = "err" /\ lastExit[t].exc

\* C11: when an exception E leaves the body of a MemoryTransaction block, the
\* exception that comes out of the block's __aexit__ is E
C11_ExitReraisesTheOriginal ==
    \A t \in Tasks :
        mtask[t].exitIn # None => mtask[t].exitOut = mtask[t].exitIn

\* C12: when a task was cancelled inside its outermost transaction scope (in an
\* execute, or while __aexit__ waited for the lock) and the scope has been left, the
\* scope has called clear() and the connection it began its transaction on is closed
C12_CancelledScopeReleases ==
    \A t \in Tasks :
        LET x == lastExit[t] IN
          (x.top /\ x.cancelled /\ x.trx # NoConn /\ x.out \in {"ok", "err", "cancelled"})
             => /\ Has(x, "clear")
                /\ conn[x.trx].st = "closed"

\* C13: when the root MemoryTransaction (the one whose start found the stack empty)
\* has been rolled back, the rows of the table are the rows it had when that
\* transaction started, whatever was created, updated, deleted or upserted since and
\* whatever nested transactions were committed since
C13_RootRollbackRestores ==
    (last.op = "rollback" /\ last.root) => records = nest.rootAt

\* the root transaction was rolled back after a nested transaction committed and
\* after the table was written to
C13_Witness ==
    /\ last.op = "rollback" /\ last.root
    /\ nest.committed
    /\ last.before # nest.rootAt
    /\ mbudget.ops = 0

\* C14: when the last transaction of a nest has been closed (the stack is empty
\* again) and some transaction of the nest was rolled back, the rows of the table are
\* the rows it had when the root transaction started
C14_AnyRollbackDiscardsAll ==
    (last.op \in {"commit", "rollback"} /\ last.root /\ nest.rolled)
        => records = nest.rootAt

\* C15: with concurrent tasks that each enter and leave their own MemoryTransaction
\* blocks on one backend, no commit or rollback fails its assertion, the stack holds
\* exactly the transactions of the blocks the tasks are inside, and so it is empty
\* when every task has left its blocks
C15_StackNeverCorrupted ==
    /\ \A t \in Tasks : mtask[t].exitOut # "AssertionError"
    /\ \A i \in 1..Len(transactionStack) :
         \E t \in Tasks : \E j \in 1..Len(mtask[t].own) : mtask[t].own[j] = transactionStack[i]
    /\ (\A t \in Tasks : mtask[t].own = <<>>) => transactionStack = <<>>

\* the positions of the rows of a table that have the key value k
RowsWithKey(rows, k) == {i \in 1..Len(rows) : rows[i].id = k}

\* C16: upsert(record) either updates or appends.  When the key of the record is not
\* null and rows with that key exist, these rows take the values of the record, the
\* other rows and the number of rows are unchanged; otherwise the rows are the old
\* ones followed by one new row.  So when at most one row had the key before, exactly
\* one row has it afterwards and it holds the values of the record.
C16_UpsertUpdatesOrAppends ==
    last.op = "upsert" =>
        LET record == last.recs[1]
            before == last.before
            k == record.id
            old == RowsWithKey(before, k) IN
          /\ IF k \notin {Absent, Null} /\ old # {}
               THEN /\ Len(records) = Len(before)
                    /\ \A i \in 1..Len(before) :
                         records[i] = IF i \in old THEN record ELSE before[i]
                    /\ last.res = <<record>>
               ELSE /\ Len(records) = Len(before) + 1
                    /\ SubSeq(records, 1, Len(before)) = before
                    /\ records[Len(records)].x = record.x
                    /\ records[Len(records)].y = record.y
                    /\ last.res = <<records[Len(records)]>>
          /\ (k \notin {Absent, Null} /\ Cardinality(old) <= 1) =>
                /\ Cardinality(RowsWithKey(records, k)) = 1
                /\ \A i \in RowsWithKey(records, k) : records[i] = record

\* an upsert found a row with the key of the record holding other values and
\* replaced them
C16_Witness ==
    /\ last.op = "upsert"
    /\ Len(records) = Len(last.before)
    /\ records # last.before
    /\ Cardinality(RowsWithKey(records, last.recs[1].id)) = 1

\* a filter `column == value` is true of a row
FilterTrue(filter, row) == row[filter.col] = filter.val

\* the positions of the rows for which every filter is true
Hits(rows, filters) ==
    {i \in 1..Len(rows) : \A j \in 1..Len(filters) : FilterTrue(filters[j], rows[i])}

\* t consists of the rows of s at the positions keep, in their order
IsRestriction(t, s, keep) ==
    /\ Len(t) = Cardinality(keep)
    /\ \A i \in keep : t[Cardinality({j \in keep : j <= i})] = s[i]

\* C17: after delete_records(filters) the table holds the rows for which not every
\* filter is true, unchanged and in their order, and the call returned the number
\* of rows for which every filter is true
C17_DeleteRemovesMatching ==
    last.op = "delete_records" =>
        LET gone == Hits(last.before, last.where) IN
          /\ IsRestriction(records, last.before, (1..Len(last.before)) \ gone)
          /\ last.n = Cardinality(gone)

\* two of three rows matched the filters and were removed
C17_Witness ==
    /\ last.op = "delete_records"
    /\ last.where # <<>>
    /\ Len(last.before) = 3
    /\ last.n = 2
    /\ records = <<last.before[2]>>

\* the n smallest elements of a set of positions
FirstOf(positions, n) == {i \in positions : Cardinality({j \in positions : j < i}) < n}

\* C18: select with limit n returns min(n, number of matching rows) rows, with no
\* limit it returns as many rows as match; without an order these are the first
\* matching rows of the table
C18_SelectHonoursLimit ==
    last.op = "select" =>
        LET hits == Hits(last.before, last.where)
            n == IF last.limit = NoLimit \/ last.limit > Cardinality(hits)
                   THEN Cardinality(hits) ELSE last.limit IN
          /\ Len(last.res) = n
          /\ last.order = <<>> => IsRestriction(last.res, last.before, FirstOf(hits, n))

\* row a comes before row b under an order list: decided by the first entry on which
\* they differ, ascending or descending as flagged, and by `tie` when there is none
RECURSIVE Precedes(_, _, _, _)
Precedes(a, b, order, tie) ==
    IF order = <<>> THEN tie
    ELSE LET col == order[1].col IN
           IF a[col] = b[col] THEN Precedes(a, b, Tail(order), tie)
           ELSE IF order[1].desc THEN a[col] > b[col] ELSE a[col] < b[col]

\* C19: select with an order list returns the matching rows, each once, sorted by the
\* first entry of the list, ties broken by the following entries, and rows equal on
\* every entry in the order they have in the table
C19_SelectOrdersByFirstEntry ==
    (last.op = "select" /\ last.order # <<>>) =>
        LET hits == Hits(last.before, last.where)
            at(r) == CHOOSE i \in 1..Len(last.before) : last.before[i] = r IN
          /\ Len(last.res) = Cardinality(hits)
          /\ {last.res[i] : i \in 1..Len(last.res)} = {last.before[i] : i \in hits}
          /\ \A i \in 1..Len(last.res) : \A j \in (i + 1)..Len(last.res) :
               Precedes(last.res[i], last.res[j], last.order, at(last.res[i]) < at(last.res[j]))

\* C20: create_records(records) leaves the old rows followed by one new row per
\* input record, and returns these new rows: one per input record, in input order,
\* with the values of the record and a primary key that is not null
C20_CreateReturnsTheNewRows ==
    last.op = "create_records" =>
        LET n == Len(last.recs)
            m == Len(last.before) IN
          /\ Len(records) = m + n
          /\ SubSeq(records, 1, m) = last.before
          /\ Len(last.res) = n
          /\ \A i \in 1..n :
               /\ last.res[i] = records[m + i]
               /\ last.res[i].x = last.recs[i].x /\ last.res[i].y = last.recs[i].y
               /\ last.res[i].id \notin {Null, Absent}

\* C21: create_records called with an empty list returns an empty list and leaves the
\* table as it was, whatever the table holds
C21_CreateNothingReturnsNothing ==
    (last.op = "create_records" /\ last.recs = <<>>) =>
        /\ last.res = <<>>
        /\ records = last.before

\* the records of a create_records call that came without a primary key, up to the i-th
Keyless(recs, i) == {j \in 1..i : recs[j].id = Absent}

\* C22: the records a backend instance creates without a key get 1, 2, 3, ... in the
\* order they are created, and a key that a record brings is kept
C22_SerialKeysInOrder ==
    (last.op = "create_records" /\ pkGenerator = 1 + Len(last.recs)) =>
        LET m == Len(last.before) IN
          \A i \in 1..Len(last.recs) :
              records[m + i].id = IF last.recs[i].id = Absent
                                    THEN Cardinality(Keyless(last.recs, i))
                                    ELSE last.recs[i].id

\* C23: inside a set_backend(b) block get_backend() returns b; when the block has
\* ended, by return or by exception, get_backend() returns what it returned before
\* the block was entered, the nested blocks being undone innermost first
C23_SetBackendIsScoped ==
    \A t \in Tasks :
        /\ (bk[t].last.op = "get" /\ using[t] # <<>>) =>
               bk[t].last.res = using[t][Len(using[t])].backend
        /\ (bk[t].last.op = "enter") =>
               GetBackend(t) = using[t][Len(using[t])].backend
        /\ (bk[t].last.op = "exit") => GetBackend(t) = bk[t].last.prev
        /\ \A i \in 2..Len(using[t]) : using[t][i].prev = using[t][i - 1].backend

\* an exception ended a nested block whose backend differs from the outer one's, and
\* the task is back in the outer block
C23_Witness ==
    \E t \in Tasks :
        /\ bk[t].last.op = "exit"
        /\ bk[t].exc
        /\ Len(using[t]) = 1
        /\ bk[t].last.left # bk[t].last.prev
        /\ GetBackend(t) = using[t][1].backend

\* C24: get_backend() called while no backend is set fails; it does not return None
C24_GetWithoutBackendFails ==
    \A t \in Tasks :
        (bk[t].last.op = "get" /\ using[t] = <<>>) => bk[t].last.res # None

\* the record with None in place of every missing column
WithNulls(m) == [c \in DOMAIN m |-> IF m[c] = Absent THEN Null ELSE m[c]]

\* C25: a column that the record lacks evaluates to None and nothing is raised, and
\* every expression evaluates on the record as it does on the record that holds
\* None in that column
C25_MissingColumnIsNull ==
    result # <<>> =>
        /\ (element.kind = "Column" /\ model[element.name] = Absent) => result[1] = Null
        /\ result[1] = EvaluateColumnElement(element, WithNulls(model))

\* a comparison was evaluated on a record that lacks the column it names
C25_Witness ==
    /\ result # <<>>
    /\ element.kind = "BinaryExpression"
    /\ element.operator = "is_"
    /\ model[element.args[1].name] = Absent
    /\ result[1] = PyTrue

\* the value the record holds in the column of a comparison, None when it has none
Held(e, m) == IF m[e.args[1].name] = Absent THEN Null ELSE m[e.args[1].name]

\* the values an IN list names
Listed(e) == {e.args[2].args[i].value : i \in 1..Len(e.args[2].args)}

\* C26: `col IS NULL` is true exactly for the records whose column is None or
\* missing, `col IS NOT NULL` exactly for the others, and `col IN (v1..vk)` exactly
\* when the record's value is one of the listed values
C26_IsIsNotIn ==
    (result # <<>> /\ element.kind = "BinaryExpression") =>
        /\ (element.operator = "is_" /\ element.args[2] = NullNode) =>
               (result[1] = PyTrue <=> Held(element, model) = Null)
        /\ (element.operator = "is_not" /\ element.args[2] = NullNode) =>
               (result[1] = PyTrue <=> Held(element, model) # Null)
        /\ (element.operator = "in_op") =>
               (result[1] = PyTrue <=> Held(element, model) \in Listed(element))
        /\ result[1] \in {PyTrue, PyFalse}

\* an IN over two values was true for the second one
C26_Witness ==
    /\ result # <<>>
    /\ element.kind = "BinaryExpression"
    /\ element.operator = "in_op"
    /\ Len(element.args[2].args) = 2
    /\ model.x = element.args[2].args[2].value
    /\ model.x # Null
    /\ result[1] = PyTrue

\* --- the WHERE clause as a SQL engine reads it: TRUE, FALSE or UNKNOWN
SqlBool(b) == IF b THEN "T" ELSE "F"
SqlNot(v) == IF v = "T" THEN "F" ELSE IF v = "F" THEN "T" ELSE "U"
SqlAnd(a, b) == IF a = "F" \/ b = "F" THEN "F" ELSE IF a = "T" /\ b = "T" THEN "T" ELSE "U"
SqlOr(a, b) == IF a = "T" \/ b = "T" THEN "T" ELSE IF a = "F" /\ b = "F" THEN "F" ELSE "U"

RECURSIVE Sql(_, _)
Sql(e, m) ==
    CASE e.kind = "Column" ->
           LET v == WithNulls(m)[e.name] IN IF v = Null THEN "U" ELSE SqlBool(v = PyTrue)
      [] e.kind = "True_" -> "T"
      [] e.kind = "False_" -> "F"
      [] e.kind = "AsBoolean" ->
           IF e.operator = "is_false" THEN SqlNot(Sql(e.args[1], m)) ELSE Sql(e.args[1], m)
      [] e.kind = "BooleanClauseList" ->
           LET rest == [e EXCEPT !.args = SubSeq(@, 1, Len(@) - 1)]
               head == IF Len(e.args) = 2 THEN Sql(e.args[1], m) ELSE Sql(rest, m)
               tail == Sql(e.args[Len(e.args)], m) IN
             IF e.operator = "and_" THEN SqlAnd(head, tail) ELSE SqlOr(head, tail)
      [] e.kind = "BinaryExpression" ->
           LET v == Held(e, m) IN
             CASE e.operator = "is_" -> SqlBool(v = Null)
               [] e.operator = "is_not" -> SqlBool(v # Null)
               [] e.operator = "eq" -> IF v = Null THEN "U" ELSE SqlBool(v = e.args[2].value)
               [] e.operator = "ne" -> IF v = Null THEN "U" ELSE SqlBool(v # e.args[2].value)
               [] e.operator = "in_op" ->
                    IF v = Null THEN "U"
                    ELSE IF v \in Listed(e) THEN "T"
                    ELSE IF Null \in Listed(e) THEN "U" ELSE "F"

\* C27: a record is selected by the evaluator (the expression evaluates to a true
\* value, and nothing is raised) exactly when the SQL reading of the expression is
\* TRUE for it
C27_SameRowsAsSql ==
    (result # <<>> /\ element \in Filters) =>
        /\ result[1] # Raised
        /\ Bool(result[1]) <=> Sql(element, model) = "T"

\* C28: a call that returns an engine or pool returns an open one; when it found a
\* closed entry under the key it created a new object, stored it under the key and
\* returned it; when it found an open entry and force was false it returned that
\* object and created nothing
C28_ClosedEntryIsReplaced ==
    \A t \in Tasks :
        (call[t].pc = "done" /\ call[t].ret # NoEngine) =>
            /\ call[t].retOpen
            /\ (call[t].seen # NoEngine /\ call[t].seenClosed) =>
                   /\ call[t].made \notin {NoEngine, call[t].seen}
                   /\ call[t].ret = call[t].made
                   /\ call[t].stored
            /\ (call[t].seen # NoEngine /\ ~call[t].seenClosed /\ ~call[t].force) =>
                   /\ call[t].ret = call[t].seen
                   /\ call[t].made = NoEngine

\* a call without force found a closed entry and returned the object it created,
\* which is the cached one now
C28_Witness ==
    \E t \in Tasks :
        /\ call[t].pc = "done"
        /\ call[t].seenClosed
        /\ ~call[t].force
        /\ call[t].ret = call[t].made
        /\ cached[call[t].kind] = call[t].ret

\* C29: a call of a function wrapped with DBEngine.open_transaction, made outside
\* any scope of its task, runs in a transaction scope: when the call returns, the
\* writes of the function are committed; when the function raises, none of its
\* writes is observable and the call raises
C29_OpenTransactionCommitsOrRollsBack ==
    \A t \in Tasks :
        LET x == lastExit[t] IN
          (x.kind = "trx" /\ x.depth = 1 /\ Exited(x)) =>
              /\ x.out = "ok" => x.w \subseteq db
              /\ x.exc => (x.out = "err" /\ x.w \cap db = {})

\* C30: the rows of the table change through the operations of the backend only:
\* what the caller does, after a call has returned, to a dict it passed in or to a
\* dict or list it was returned leaves the stored rows as they were
C30_NoChangeThroughAliases ==
    last.op = "caller" => records = last.before

\* C31: from the moment the exit of an outermost scope issues commit or rollback
\* until it has closed the connection, the task holds the lock of the connection
\* the transaction runs on, and no execute is in flight on that connection when
\* commit or rollback is issued
C31_ExitHoldsTheLock ==
    \A t \in AllTasks :
        (pc[t] \in {"finish", "exit_close"}) =>
            LET f == Top(t) IN
              /\ conn[f.trx].lock = t
              /\ pc[t] = "finish" => conn[f.trx].inflight = {}

\* C32: the scope a task enters after its outermost transaction scope has exited
\* finds no connection stored, is an outermost scope itself when it is a
\* transaction, and does not return the connection the earlier scope closed
C32_BackToNoContext ==
    \A t \in Tasks :
        LET p == lastExit[t] IN
          (p.kind = "trx" /\ p.top /\ p.depth = 1 /\ Exited(p) /\ frames[t] # <<>>) =>
              LET x == frames[t][1] IN
                /\ x.assoc = NoConn
                /\ x.kind = "trx" => x.top
                /\ x.ret # NoConn => x.ret # p.lk

\* C33: the start of a transaction that finds the stack not empty, and the commit or
\* rollback of a transaction that leaves the stack not empty, change nothing but the
\* stack: the rows of the table and the backup of the root stay as they are
C33_NestedOnlyTouchTheStack ==
    [][(transactionStack' # transactionStack /\ transactionStack # <<>>
                                             /\ transactionStack' # <<>>)
          => (records' = records /\ tmpRecords' = tmpRecords)]_vars

\* a nested transaction was rolled back after the table was written to inside the
\* root transaction, and the root is still open
C33_Witness ==
    /\ last.op = "rollback" /\ ~last.root
    /\ Len(transactionStack) = 1
    /\ \A t \in Tasks : mtask[t].exitOut # "AssertionError"
    /\ records # nest.rootAt
    /\ tmpRecords = <<nest.rootAt>>

\* the record r with the values `values` assigned
Assigned(r, values) == \A c \in Cols : values[c] # Absent => r[c] = values[c]

\* the record r differs from q in columns that `values` names only
OnlyAssigned(r, q, values) == \A c \in Cols : values[c] = Absent => r[c] = q[c]

\* C34: update_records(filters, values) gives the values to every row for which all
\* filters are true and to no other row, and returns the rows it updated, as they
\* are after the update
C34_UpdateChangesMatchingRows ==
    last.op = "update_records" =>
        LET hits == Hits(last.before, last.where)
            values == last.values[1] IN
          /\ Len(records) = Len(last.before)
          /\ \A i \in 1..Len(records) :
               IF i \in hits
                 THEN Assigned(records[i], values) /\ OnlyAssigned(records[i], last.before[i], values)
                 ELSE records[i] = last.before[i]
          /\ Len(last.res) = Cardinality(hits)
          /\ \A i \in hits : last.res[Cardinality({j \in hits : j <= i})] = records[i]

\* an update changed one row of a table and left another, which the filters exclude
C34_Witness ==
    /\ last.op = "update_records"
    /\ last.where # <<>>
    /\ \E i, j \in 1..Len(records) :
         /\ records[i] # last.before[i]
         /\ j \notin Hits(last.before, last.where)
         /\ last.res = <<records[i]>>

\* C35: a call of select, create_records, delete_records, update_records or upsert
\* on the SQL backend to whose query the driver answered InvalidTextRepresentation
\* raises InvalidFieldValue
C35_CoercionFailureIsTranslated ==
    \A i \in 1..Len(sqlLog) :
        sqlLog[i].answer = "InvalidTextRepresentation" => sqlLog[i].out = "InvalidFieldValue"

\* C36: a call of get_aiopg_engine or get_asyncpgsa_pool with if_exists=True never
\* creates an engine or pool: it does not reach create_engine / create_pool and
\* returns the entry it found under the key, or None when it found none
C36_IfExistsNeverCreates ==
    \A t \in Tasks :
        call[t].if_exists =>
            /\ call[t].pc # "creating"
            /\ call[t].made = NoEngine
            /\ call[t].pc = "done" => call[t].ret = call[t].seen

\* two calls of get_aiopg_engine that both found nothing under the key have both
\* returned the engine they created, and both engines are open
Raced(t, u) ==
    /\ t # u
    /\ \A v \in {t, u} :
        /\ call[v].pc = "done"
        /\ call[v].kind = "aiopg"
        /\ call[v].seen = NoEngine
        /\ call[v].made # NoEngine
        /\ engineObj[call[v].made] = "open"

\* the call of t stores its engine under a key that another call filled while
\* create_engine was awaited
Overwrites(t) ==
    /\ call[t].pc = "creating"
    /\ call[t].kind = "aiopg"
    /\ call[t].seen = NoEngine
    /\ cached["aiopg"] # NoEngine
    /\ call'[t] # call[t]
    /\ nextEngine' # nextEngine

\* t calls get_aiopg_engine without force after the calls of t and u raced
CallsAfterRace(t, u) ==
    /\ Raced(t, u)
    /\ call'[t] # call[t]
    /\ call'[t].kind = "aiopg"
    /\ ~call'[t].force

\* C37: a call of get_aiopg_engine that found nothing under the key and whose
\* create_engine returned after another call filled the key does not fail: it stores
\* its engine under the key and returns it; when the racing calls have returned, the
\* key holds one of their engines, and a later call without force returns the engine
\* under the key and creates nothing
C37_RaceIsAnOverwrite ==
    [][\A t \in Tasks :
          /\ Overwrites(t) =>
                /\ call'[t].pc = "done"
                /\ call'[t].ret = call'[t].made
                /\ call'[t].made \notin {NoEngine, cached["aiopg"]}
                /\ call'[t].retOpen
                /\ cached'["aiopg"] = call'[t].ret
          /\ \A u \in Tasks :
                /\ Raced(t, u) => cached["aiopg"] \in {call[t].made, call[u].made}
                /\ CallsAfterRace(t, u) =>
                      /\ call'[t].pc = "done"
                      /\ call'[t].ret = cached["aiopg"]
                      /\ call'[t].made = NoEngine
                      /\ cached' = cached]_vars

\* the second engine was made by a call that had found nothing under the key, so the
\* two creating calls raced; a later call without force has returned that engine,
\* which is the one under the key
C37_Witness ==
    \E t, u \in Tasks :
        /\ t # u
        /\ nextEngine = 3
        /\ cached["asyncpgsa"] = NoEngine
        /\ call[u].pc = "done" /\ call[u].kind = "aiopg"
        /\ call[u].seen = NoEngine /\ call[u].made = 2
        /\ call[t].pc = "done" /\ call[t].kind = "aiopg" /\ ~call[t].force
        /\ call[t].seen = 2 /\ call[t].ret = 2 /\ call[t].made = NoEngine
        /\ cached["aiopg"] = 2

\* C38: no step starts an execute on a connection that is closed: a closed
\* connection gets no new call of execute, from the task that closed it or from a
\* sibling that was running or waiting for the lock when the scope exited
C38_NoExecuteAfterClose ==
    [][\A c \in DOMAIN conn :
          conn[c].st = "closed" => conn'[c].inflight \subseteq conn[c].inflight]_vars

\* C39: when a root transaction is rolled back and the last operation on the
\* backend was a create_records that a task inside no transaction block ran, the
\* rows it created are in the store after the rollback
C39_RollbackKeepsOutsideWrites ==
    [][(/\ last.op = "create_records"
        /\ last.outside
        /\ Len(records) > Len(last.before)
        /\ last'.op = "rollback"
        /\ last'.root
        /\ transactionStack # <<>> /\ transactionStack' = <<>>)
          => \A i \in (Len(last.before) + 1)..Len(records) :
                 \E j \in 1..Len(records') : records'[j] = records[i]]_vars

\* C40: after create_records and upsert calls, no two rows of the table have the
\* same primary key
C40_PrimaryKeysAreUnique ==
    last.op \in {"create_records", "upsert"} =>
        \A i, j \in 1..Len(records) : i # j => records[i].id # records[j].id

====
